---- MODULE Spec2Model ----
(***************************************************************************)
(* A model of ppp-go: the Client (cache-aside orchestration of the World   *)
(* Bank PPP indicator and the currency-rate provider), the cache, and the  *)
(* analytics built on them.                                                *)
(*                                                                         *)
(* Conventions                                                             *)
(*  - a Go string is a sequence of one-character strings: "TR" is          *)
(*    <<"T","R">>, so that len(), slicing and fmt.Sprintf composition are   *)
(*    the sequence operations;                                             *)
(*  - a float64 is an exact rational [n |-> numerator, d |-> denominator]  *)
(*    in lowest terms with d > 0 (the values of the model stay far from    *)
(*    the range where float64 rounds, overflows or underflows), or one of  *)
(*    NaN, +Inf and -Inf (d = 0);                                          *)
(*  - time is counted in hours: time.Hour is 1.                            *)
(***************************************************************************)
EXTENDS Integers, Sequences, FiniteSets, TLC

VARIABLES
    cacheEnabled,   \* Client.cacheEnabled
    cacheDuration,  \* Client.cacheDuration, in hours
    cache,          \* Client.cache.memory: key -> [obj, exp]; <<>> also when cache is nil
    pricingTiers,   \* RecommendationEngine.pricingTiers
    now,            \* the wall clock, in hours
    file,           \* the cache snapshot file on disk
    inflight,       \* the position of each concurrent caller of GetPPP
    last,           \* the operation that completed last, with its inputs and results
    prev            \* the operation that completed before it

vars == <<cacheEnabled, cacheDuration, cache, pricingTiers, now, file, inflight,
         last, prev>>

----------------------------------------------------------------------------
(* Bounds of the model *)

\* the clock runs from 0 to MaxTime
MaxTime == 2
\* the duration given to WithCache, in hours
ShortDuration == 1
\* number of data points in a provider series (the code asks for 11 years)
SeriesLen == 2
\* longest country list handed to ComparePPP
MaxCodes == 3
\* largest number of items in a market basket
MaxItems == 2
\* longest country list handed to BatchRecommend
MaxBatch == 2
\* longest code, in characters, handed to the code validators
MaxCodeLen == 3
\* longest list of options handed to NewClient
MaxOptions == 3
\* number of callers that call GetPPP concurrently
NumCallers == 2
\* longest identifying field of a cached dataset, in characters
MaxIdLen == 2

----------------------------------------------------------------------------
(* float64 as exact decimal rationals: [n, d, e] stands for (n / d) * 10^e, *)
(* in the one form with d > 0 prime to 10, n prime to d and not a multiple  *)
(* of 10, and zero as [0, 1, 0]; so equal numbers are equal records.        *)

Abs(i) == IF i < 0 THEN -i ELSE i

RECURSIVE GCD(_, _)
GCD(a, b) == IF b = 0 THEN a ELSE GCD(b, a % b)

RECURSIVE Pow10(_)
Pow10(k) == IF k = 0 THEN 1 ELSE 10 * Pow10(k - 1)

\* the factors 2 and 5 of d moved into the exponent
RECURSIVE NormDen(_, _, _)
NormDen(n, d, e) ==
    IF d % 2 = 0 THEN NormDen(n * 5, d \div 2, e - 1)
    ELSE IF d % 5 = 0 THEN NormDen(n * 2, d \div 5, e - 1)
    ELSE [n |-> n, d |-> d, e |-> e]

\* the factors 10 of n moved into the exponent
RECURSIVE NormNum(_, _, _)
NormNum(n, d, e) ==
    IF n = 0 THEN [n |-> 0, d |-> 1, e |-> 0]
    ELSE IF n % 10 = 0 THEN NormNum(n \div 10, d, e + 1)
    ELSE [n |-> n, d |-> d, e |-> e]

\* (n / d) * 10^e in normal form, d # 0
Norm(n, d, e) ==
    LET s == IF d < 0 THEN -1 ELSE 1
        g == GCD(Abs(n), Abs(d))
        r == NormDen((s * n) \div g, (s * d) \div g, e)
    IN  NormNum(r.n, r.d, r.e)

Rat(n, d) == Norm(n, d, 0)
RInt(i) == Norm(i, 1, 0)
\* the decimal literal n * 10^e
Dec(n, e) == Norm(n, 1, e)

Min(i, j) == IF i < j THEN i ELSE j

RAdd(a, b) ==
    LET m == Min(a.e, b.e)
    IN  Norm(a.n * Pow10(a.e - m) * b.d + b.n * Pow10(b.e - m) * a.d, a.d * b.d, m)
RNeg(a) == [a EXCEPT !.n = -a.n]
RSub(a, b) == RAdd(a, RNeg(b))
RMul(a, b) == Norm(a.n * b.n, a.d * b.d, a.e + b.e)
RDiv(a, b) == Norm(a.n * b.d, a.d * b.n, a.e - b.e)

\* a < b for a, b > 0: numbers more than 9 decades apart in exponent are
\* ordered by the exponent (n * d stays below 2^31), the others by
\* cross-multiplication
PosLt(a, b) ==
    IF a.e - b.e > 9 THEN FALSE
    ELSE IF b.e - a.e > 9 THEN TRUE
    ELSE LET m == Min(a.e, b.e)
         IN  a.n * Pow10(a.e - m) * b.d < b.n * Pow10(b.e - m) * a.d

\* the float64 values that are no numbers: every comparison with NaN is
\* false, and the infinities lie beyond every number
NaN == [n |-> 0, d |-> 0, e |-> 0]
PosInf == [n |-> 1, d |-> 0, e |-> 0]
NegInf == [n |-> -1, d |-> 0, e |-> 0]

RLt(a, b) ==
    IF a = NaN \/ b = NaN THEN FALSE
    ELSE IF a.d = 0 \/ b.d = 0 THEN a # b /\ (a = NegInf \/ b = PosInf)
    ELSE IF a.n <= 0 /\ b.n > 0 THEN TRUE
    ELSE IF a.n <= 0 /\ b.n = 0 THEN a.n < 0
    ELSE IF b.n <= 0 /\ a.n >= 0 THEN FALSE
    ELSE IF a.n > 0 THEN PosLt(a, b)
    ELSE PosLt(RNeg(b), RNeg(a))
RLe(a, b) == (a = b /\ a # NaN) \/ RLt(a, b)
RGt(a, b) == RLt(b, a)
RGe(a, b) == RLe(b, a)

----------------------------------------------------------------------------
(* Strings *)

TR == <<"T", "R">>
BR == <<"B", "R">>
ZZ == <<"Z", "Z">>
USD == <<"U", "S", "D">>
TRY == <<"T", "R", "Y">>
BRL == <<"B", "R", "L">>

\* the country codes and source currencies the operations are called with
Countries == {TR, BR, ZZ}
Currencies == {USD}

----------------------------------------------------------------------------
(* errors.go *)

ErrCodeNoData == "NO_DATA"
ErrCodeAPIError == "API_ERROR"
ErrCodeInvalidInput == "INVALID_INPUT"

\* An error value: pppError says whether a *PPPError is in its chain (what
\* errors.As finds), code is that PPPError's Code, sentinel the package-level
\* error (ErrNoData, ErrInvalidAmount, ...) in its chain, "" when there is none.
NewPPPError(code, message, err) ==
    [pppError |-> TRUE, code |-> code, message |-> message, sentinel |-> err]

\* fmt.Errorf of a message that wraps no error
Errorf(message) ==
    [pppError |-> FALSE, code |-> "", message |-> message, sentinel |-> ""]

\* fmt.Errorf("...: %w", err): a new message over the same chain
Wrapf(message, err) == [err EXCEPT !.message = message]

IsNoDataError(err) ==
    IF err.pppError THEN err.code = ErrCodeNoData ELSE err.sentinel = "ErrNoData"

Ok(v) == [ok |-> TRUE, val |-> v]
Fail(e) == [ok |-> FALSE, err |-> e]

----------------------------------------------------------------------------
(* cache.go: Cache over github.com/patrickmn/go-cache *)

\* time.Hour
Hour == 1
\* NewClient's default cacheDuration, 24 * time.Hour
DefaultCacheHours == 24

\* NewCache(defaultExpiration, cleanupInterval): an empty store
NewCache(defaultExpiration) ==
    [nil |-> FALSE, items |-> <<>>, defaultExpiration |-> defaultExpiration]

\* a Client with no cache (c.cache == nil)
NilCache == [nil |-> TRUE, items |-> <<>>, defaultExpiration |-> 0]

CacheKeyPPP(countryCode) == <<"p", "p", "p", ":">> \o countryCode

CacheKeyExchangeRate(from, to) ==
    <<"r", "a", "t", "e", ":">> \o from \o <<":">> \o to

\* c.memory.Get(key) at time t: an entry past its expiration is not found
MemoryGet(c, key, t) ==
    IF key \in DOMAIN c.items /\ ~(c.items[key].exp > 0 /\ t > c.items[key].exp)
    THEN [found |-> TRUE, obj |-> c.items[key].obj]
    ELSE [found |-> FALSE]

\* c.memory.Set(key, obj, d) at time t: d = 0 takes the store's default
\* expiration, and a duration that is not positive never expires (exp = 0)
MemorySet(c, key, obj, d, t) ==
    LET dur == IF d = 0 THEN c.defaultExpiration ELSE d
        e == IF dur > 0 THEN t + dur ELSE 0
    IN  [c EXCEPT !.items = (key :> [obj |-> obj, exp |-> e]) @@ c.items]

CacheGetPPP(c, countryCode, t) ==
    LET g == MemoryGet(c, CacheKeyPPP(countryCode), t)
    IN  IF g.found /\ g.obj.type = "*PPPData"
        THEN [found |-> TRUE, val |-> g.obj.v]
        ELSE [found |-> FALSE]

CacheSetPPP(c, countryCode, data, expiration, t) ==
    MemorySet(c, CacheKeyPPP(countryCode), [type |-> "*PPPData", v |-> data],
              expiration, t)

CacheGetExchangeRate(c, from, to, t) ==
    LET g == MemoryGet(c, CacheKeyExchangeRate(from, to), t)
    IN  IF g.found /\ g.obj.type = "*ExchangeRate"
        THEN [found |-> TRUE, val |-> g.obj.v]
        ELSE [found |-> FALSE]

CacheSetExchangeRate(c, from, to, rate, expiration, t) ==
    MemorySet(c, CacheKeyExchangeRate(from, to),
              [type |-> "*ExchangeRate", v |-> rate], expiration, t)

\* a Clear that removes the PPP entries only
CacheClearPPP(c) ==
    [c EXCEPT !.items = [k \in {key \in DOMAIN c.items : key[1] # "p"} |-> c.items[k]]]

\* Cache.Clear: c.memory.Flush()
CacheClear(c) == [c EXCEPT !.items = <<>>]

CacheKeyCountries ==
    <<"c", "o", "u", "n", "t", "r", "i", "e", "s", ":", "a", "l", "l">>

IndicatorsPrefix ==
    <<"i", "n", "d", "i", "c", "a", "t", "o", "r", "s", ":",
      "s", "e", "a", "r", "c", "h">>

CacheKeyIndicators(search) == IndicatorsPrefix \o <<":">> \o search

CacheGetCountries(c, t) ==
    LET g == MemoryGet(c, CacheKeyCountries, t)
    IN  IF g.found /\ g.obj.type = "[]Country"
        THEN [found |-> TRUE, val |-> g.obj.v]
        ELSE [found |-> FALSE]

CacheSetCountries(c, countries, expiration, t) ==
    MemorySet(c, CacheKeyCountries, [type |-> "[]Country", v |-> countries],
              expiration, t)

CacheGetIndicators(c, search, t) ==
    LET g == MemoryGet(c, CacheKeyIndicators(search), t)
    IN  IF g.found /\ g.obj.type = "[]Indicator"
        THEN [found |-> TRUE, val |-> g.obj.v]
        ELSE [found |-> FALSE]

CacheSetIndicators(c, search, indicators, expiration, t) ==
    MemorySet(c, CacheKeyIndicators(search),
              [type |-> "[]Indicator", v |-> indicators], expiration, t)

----------------------------------------------------------------------------
(* The snapshot file.  A JSON text is the value it denotes: null, a string, *)
(* a number, an array, or an object (a function from its keys).  A time is  *)
(* written as a string of its instant, and read back from that string.      *)

JNull == [j |-> "null"]
JString(s) == [j |-> "string", s |-> s]
JNumber(x) == [j |-> "number", x |-> x]
JArray(a) == [j |-> "array", a |-> a]
JObject(f) == [j |-> "object", f |-> f]

\* the zero time.Time
ZeroTime == -1

Digits == <<"0", "1", "2", "3", "4", "5", "6", "7", "8", "9">>

\* Time.MarshalJSON
MarshalTime(t) ==
    JString(<<"T">> \o (IF t = ZeroTime THEN <<"-">> ELSE <<Digits[t + 1]>>))

UnmarshalError == Errorf("json: cannot unmarshal")

\* Time.UnmarshalJSON: null leaves the zero time, a string is parsed
UnmarshalTime(j) ==
    IF j.j = "null" THEN Ok(ZeroTime)
    ELSE IF j.j # "string" THEN Fail(UnmarshalError)
    ELSE IF Len(j.s) = 2 /\ j.s[1] = "T" /\ j.s[2] = "-" THEN Ok(ZeroTime)
    ELSE IF Len(j.s) = 2 /\ j.s[1] = "T" /\ \E k \in DOMAIN Digits : Digits[k] = j.s[2]
    THEN Ok((CHOOSE k \in DOMAIN Digits : Digits[k] = j.s[2]) - 1)
    ELSE Fail(UnmarshalError)

\* json.Unmarshal into a string, a float64 and an int field: null leaves the
\* zero value, a value of another JSON type is an error, and so is a number
\* with a fraction for an int
UnmarshalString(j, zero) ==
    IF j.j = "null" THEN Ok(zero)
    ELSE IF j.j = "string" THEN Ok(j.s)
    ELSE Fail(UnmarshalError)

UnmarshalFloat(j) ==
    IF j.j = "null" THEN Ok(RInt(0))
    ELSE IF j.j = "number" THEN Ok(j.x)
    ELSE Fail(UnmarshalError)

UnmarshalInt(j) ==
    IF j.j = "null" THEN Ok(0)
    ELSE IF j.j = "number" /\ j.x.d = 1 /\ j.x.e >= 0 THEN Ok(j.x.n * Pow10(j.x.e))
    ELSE Fail(UnmarshalError)

\* the member of the object under the name, null if it has none: a field
\* without a member keeps its zero value
Field(j, name) == IF name \in DOMAIN j.f THEN j.f[name] ELSE JNull

\* json.Marshal and json.Unmarshal of a PPPData (models.go)
MarshalPPPData(v) ==
    JObject([country_code |-> JString(v.CountryCode),
             year |-> JNumber(RInt(v.Year)),
             factor |-> JNumber(v.Factor),
             last_updated |-> MarshalTime(v.LastUpdated),
             source |-> JString(v.Source)])

ZeroPPPData ==
    [CountryCode |-> <<>>, Year |-> 0, Factor |-> RInt(0),
     LastUpdated |-> ZeroTime, Source |-> ""]

UnmarshalPPPData(j) ==
    IF j.j = "null" THEN Ok(ZeroPPPData)
    ELSE IF j.j # "object" THEN Fail(UnmarshalError)
    ELSE LET cc == UnmarshalString(Field(j, "country_code"), <<>>)
             yr == UnmarshalInt(Field(j, "year"))
             fa == UnmarshalFloat(Field(j, "factor"))
             lu == UnmarshalTime(Field(j, "last_updated"))
             so == UnmarshalString(Field(j, "source"), "")
         IN  IF cc.ok /\ yr.ok /\ fa.ok /\ lu.ok /\ so.ok
             THEN Ok([CountryCode |-> cc.val, Year |-> yr.val, Factor |-> fa.val,
                      LastUpdated |-> lu.val, Source |-> so.val])
             ELSE Fail(UnmarshalError)

\* json.Marshal and json.Unmarshal of an ExchangeRate
MarshalExchangeRate(v) ==
    JObject([from |-> JString(v.From), to |-> JString(v.To),
             rate |-> JNumber(v.Rate),
             last_updated |-> MarshalTime(v.LastUpdated)])

ZeroExchangeRate ==
    [From |-> <<>>, To |-> <<>>, Rate |-> RInt(0), LastUpdated |-> ZeroTime]

UnmarshalExchangeRate(j) ==
    IF j.j = "null" THEN Ok(ZeroExchangeRate)
    ELSE IF j.j # "object" THEN Fail(UnmarshalError)
    ELSE LET fr == UnmarshalString(Field(j, "from"), <<>>)
             to == UnmarshalString(Field(j, "to"), <<>>)
             ra == UnmarshalFloat(Field(j, "rate"))
             lu == UnmarshalTime(Field(j, "last_updated"))
         IN  IF fr.ok /\ to.ok /\ ra.ok /\ lu.ok
             THEN Ok([From |-> fr.val, To |-> to.val, Rate |-> ra.val,
                      LastUpdated |-> lu.val])
             ELSE Fail(UnmarshalError)

\* json.Marshal and json.Unmarshal of a Country and of an Indicator, by
\* their id and name
MarshalNamed(v) == JObject([id |-> JString(v.ID), name |-> JString(v.Name)])

UnmarshalNamed(j) ==
    IF j.j = "null" THEN Ok([ID |-> <<>>, Name |-> <<>>])
    ELSE IF j.j # "object" THEN Fail(UnmarshalError)
    ELSE LET id == UnmarshalString(Field(j, "id"), <<>>)
             nm == UnmarshalString(Field(j, "name"), <<>>)
         IN  IF id.ok /\ nm.ok THEN Ok([ID |-> id.val, Name |-> nm.val])
             ELSE Fail(UnmarshalError)

\* json.Marshal and json.Unmarshal of a []Country and of a []Indicator
MarshalSlice(s) == JArray([i \in 1..Len(s) |-> MarshalNamed(s[i])])

UnmarshalSlice(j) ==
    IF j.j = "null" THEN Ok(<<>>)
    ELSE IF j.j # "array" THEN Fail(UnmarshalError)
    ELSE IF \E i \in 1..Len(j.a) : ~UnmarshalNamed(j.a[i]).ok THEN Fail(UnmarshalError)
    ELSE Ok([i \in 1..Len(j.a) |-> UnmarshalNamed(j.a[i]).val])

\* json.Marshal of a cached object, by its Go type
MarshalObject(obj) ==
    CASE obj.type = "*PPPData" -> MarshalPPPData(obj.v)
      [] obj.type = "*ExchangeRate" -> MarshalExchangeRate(obj.v)
      [] OTHER -> MarshalSlice(obj.v)

\* c.memory.Items(): the entries that have not expired at time t
Items(c, t) == {k \in DOMAIN c.items : MemoryGet(c, k, t).found}

\* the JSON object Cache.ExportToFile writes at time t
ExportData(c, t) == JObject([k \in Items(c, t) |-> MarshalObject(c.items[k].obj)])

\* cache.DefaultExpiration
DefaultExpiration == 0

\* key[:n] == prefix, for a key longer than n
LongerWithPrefix(key, prefix) ==
    Len(key) > Len(prefix) /\ SubSeq(key, 1, Len(prefix)) = prefix

\* one turn of the loop of Cache.ImportFromFile: the entry is decoded by the
\* prefix of its key and stored; an entry that matches no case or fails to
\* decode leaves the cache as it is
ImportEntry(c, key, rawData, t) ==
    IF LongerWithPrefix(key, <<"p", "p", "p", ":">>)
    THEN LET ppp == UnmarshalPPPData(rawData)
         IN  IF ppp.ok
             THEN MemorySet(c, key, [type |-> "*PPPData", v |-> ppp.val],
                            DefaultExpiration, t)
             ELSE c
    ELSE IF LongerWithPrefix(key, <<"r", "a", "t", "e", ":">>)
    THEN LET rate == UnmarshalExchangeRate(rawData)
         IN  IF rate.ok
             THEN MemorySet(c, key, [type |-> "*ExchangeRate", v |-> rate.val],
                            DefaultExpiration, t)
             ELSE c
    ELSE IF key = CacheKeyCountries
    THEN LET countries == UnmarshalSlice(rawData)
         IN  IF countries.ok
             THEN MemorySet(c, key, [type |-> "[]Country", v |-> countries.val],
                            DefaultExpiration, t)
             ELSE c
    ELSE IF LongerWithPrefix(key, IndicatorsPrefix)
    THEN LET indicators == UnmarshalSlice(rawData)
         IN  IF indicators.ok
             THEN MemorySet(c, key, [type |-> "[]Indicator", v |-> indicators.val],
                            DefaultExpiration, t)
             ELSE c
    ELSE c

\* the loop of Cache.ImportFromFile over the entries under the keys
RECURSIVE ImportLoop(_, _, _, _)
ImportLoop(c, importData, keys, t) ==
    IF keys = {} THEN c
    ELSE LET key == CHOOSE k \in keys : TRUE
         IN  ImportLoop(ImportEntry(c, key, importData[key], t), importData,
                        keys \ {key}, t)

\* Cache.ExportToFile at time t; written tells whether the file system took
\* the file.  The file keeps, beside its text, the cache it was written
\* from and the time of the export.
CacheExportToFile(c, f, t, written) ==
    IF written
    THEN [res |-> Ok(TRUE),
          file |-> [exists |-> TRUE, body |-> ExportData(c, t),
                    exported |-> TRUE, source |-> c, at |-> t]]
    ELSE [res |-> Fail(Errorf("failed to write cache file")), file |-> f]

\* Cache.ImportFromFile at time t: a file that cannot be read or is no JSON
\* object is an error, and every entry of an object is tried on its own
CacheImportFromFile(c, f, t) ==
    IF ~f.exists
    THEN [res |-> Fail(Errorf("failed to read cache file")), cache |-> c]
    ELSE IF f.body.j = "null" THEN [res |-> Ok(TRUE), cache |-> c]
    ELSE IF f.body.j # "object"
    THEN [res |-> Fail(Errorf("failed to unmarshal cache data")), cache |-> c]
    ELSE [res |-> Ok(TRUE),
          cache |-> ImportLoop(c, f.body.f, DOMAIN f.body.f, t)]

----------------------------------------------------------------------------
(* The providers.  A response is what the HTTP call and the JSON decoding   *)
(* leave: a failure, or the data the adapter reads.                         *)

Null == [null |-> TRUE]
Val(r) == [null |-> FALSE, x |-> r]

\* the year of the i-th data point of a newest-first series, counted from
\* the start of the lookback window
YearOf(i) == SeriesLen - i + 1

\* the PPP factor the World Bank publishes for each year of the window
FactorHistory == <<Dec(3, -1), Dec(1155, -2), Dec(6, -1), Dec(2, 0)>>

\* the value of the data point of year y: null, zero, or that year's factor
PointValues(y) == {Null, Val(RInt(0)), Val(FactorHistory[y])}

\* the series the World Bank may return, newest first
Series == {s \in [1..SeriesLen -> UNION {PointValues(y) : y \in 1..SeriesLen}] :
              \A i \in 1..SeriesLen : s[i] \in PointValues(YearOf(i))}

\* World Bank responses: the request fails (transport error, status # 200,
\* undecodable body), the envelope has fewer than 2 elements, or it carries
\* the data points
WBResponses ==
    {[kind |-> "failed"], [kind |-> "short"]}
        \cup {[kind |-> "data", points |-> s] : s \in Series}

\* exchange rates the currency API may report
Rates == {RInt(1), Dec(4047, -2)}

\* currency API responses: the request fails, the body has no rate for the
\* pair, or it has one
FXResponses ==
    {[kind |-> "failed"], [kind |-> "norate"]}
        \cup {[kind |-> "rate", rate |-> r] : r \in Rates}

----------------------------------------------------------------------------
(* worldbank.go *)

\* FirstPositive without the "> 0" test: a zero is taken for an observation
RECURSIVE FirstNonNull(_, _)
FirstNonNull(points, i) ==
    IF i > Len(points) THEN 0
    ELSE IF ~points[i].null THEN i
    ELSE FirstNonNull(points, i + 1)

\* index of the first data point with a non-null value > 0, 0 when none
RECURSIVE FirstPositive(_, _)
FirstPositive(points, i) ==
    IF i > Len(points) THEN 0
    ELSE IF ~points[i].null /\ RGt(points[i].x, RInt(0)) THEN i
    ELSE FirstPositive(points, i + 1)

\* WorldBankClient.GetPPP for the response resp, at time t.  The data points
\* of a response are those of the country asked for (dp.Country.ID is
\* countryCode); the country's name is left out of the record.
WorldBankGetPPP(countryCode, resp, t) ==
    IF resp.kind = "failed" THEN Fail(Errorf("failed to fetch PPP data"))
    ELSE IF resp.kind = "short" THEN Fail(Errorf("invalid response format"))
    ELSE LET i == FirstPositive(resp.points, 1)
         IN  IF i # 0
             THEN Ok([CountryCode |-> countryCode,
                      Year |-> YearOf(i),
                      Factor |-> resp.points[i].x,
                      LastUpdated |-> t,
                      Source |-> "World Bank"])
             ELSE Fail(Errorf("no PPP data available for country"))

(* currency.go *)

UpperLetters ==
    <<"A", "B", "C", "D", "E", "F", "G", "H", "I", "J", "K", "L", "M",
      "N", "O", "P", "Q", "R", "S", "T", "U", "V", "W", "X", "Y", "Z">>
LowerLetters ==
    <<"a", "b", "c", "d", "e", "f", "g", "h", "i", "j", "k", "l", "m",
      "n", "o", "p", "q", "r", "s", "t", "u", "v", "w", "x", "y", "z">>

\* strings.ToLower and strings.ToUpper on the ASCII letters
ToLower(s) ==
    [i \in 1..Len(s) |->
        IF \E k \in DOMAIN UpperLetters : UpperLetters[k] = s[i]
        THEN LowerLetters[CHOOSE k \in DOMAIN UpperLetters : UpperLetters[k] = s[i]]
        ELSE s[i]]
ToUpper(s) ==
    [i \in 1..Len(s) |->
        IF \E k \in DOMAIN LowerLetters : LowerLetters[k] = s[i]
        THEN UpperLetters[CHOOSE k \in DOMAIN LowerLetters : LowerLetters[k] = s[i]]
        ELSE s[i]]

\* CurrencyClient.GetExchangeRate for the response resp, at time t: the
\* codes are lowered for the request and raised in the result; the date of
\* the response is taken to be the day of the call
CurrencyGetExchangeRate(from, to, resp, t) ==
    IF resp.kind = "failed" THEN Fail(Errorf("failed to fetch exchange rate"))
    ELSE IF resp.kind = "norate" THEN Fail(Errorf("no exchange rate found"))
    ELSE Ok([From |-> ToUpper(ToLower(from)), To |-> ToUpper(ToLower(to)),
             Rate |-> resp.rate, LastUpdated |-> t])

----------------------------------------------------------------------------
(* client.go: the cache-aside reads.  ppp and rate are what the provider   *)
(* adapter returns if it is called.  Each read returns the call's result,  *)
(* the cache it leaves, and the number of provider fetches it made.        *)

\* ClientGetPPP that never stores what it fetched
ClientGetPPPNoStore(c, enabled, duration, countryCode, ppp, t) ==
    LET hit == IF enabled /\ ~c.nil THEN CacheGetPPP(c, countryCode, t)
               ELSE [found |-> FALSE]
    IN  IF hit.found THEN [res |-> Ok(hit.val), cache |-> c, fetches |-> 0]
        ELSE [res |-> ppp, cache |-> c, fetches |-> 1]

ClientGetPPP(c, enabled, duration, countryCode, ppp, t) ==
    LET hit == IF enabled /\ ~c.nil THEN CacheGetPPP(c, countryCode, t)
               ELSE [found |-> FALSE]
    IN  IF hit.found THEN [res |-> Ok(hit.val), cache |-> c, fetches |-> 0]
        ELSE IF ~ppp.ok THEN [res |-> ppp, cache |-> c, fetches |-> 1]
        ELSE [res |-> ppp,
              cache |-> IF enabled /\ ~c.nil
                        THEN CacheSetPPP(c, countryCode, ppp.val, duration, t)
                        ELSE c,
              fetches |-> 1]

\* ClientGetExchangeRate that empties the cache when the fetch fails
ClientGetExchangeRateFlushing(c, enabled, from, to, rate, t) ==
    LET hit == IF enabled /\ ~c.nil THEN CacheGetExchangeRate(c, from, to, t)
               ELSE [found |-> FALSE]
    IN  IF hit.found THEN [res |-> Ok(hit.val), cache |-> c, fetches |-> 0]
        ELSE IF ~rate.ok THEN [res |-> rate, cache |-> CacheClear(c), fetches |-> 1]
        ELSE [res |-> rate,
              cache |-> IF enabled /\ ~c.nil
                        THEN CacheSetExchangeRate(c, from, to, rate.val, Hour, t)
                        ELSE c,
              fetches |-> 1]

ClientGetExchangeRate(c, enabled, from, to, rate, t) ==
    LET hit == IF enabled /\ ~c.nil THEN CacheGetExchangeRate(c, from, to, t)
               ELSE [found |-> FALSE]
    IN  IF hit.found THEN [res |-> Ok(hit.val), cache |-> c, fetches |-> 0]
        ELSE IF ~rate.ok THEN [res |-> rate, cache |-> c, fetches |-> 1]
        ELSE [res |-> rate,
              cache |-> IF enabled /\ ~c.nil
                        THEN CacheSetExchangeRate(c, from, to, rate.val, Hour, t)
                        ELSE c,
              fetches |-> 1]

\* the results the two adapters can return at time t
WBResults(countryCode, t) ==
    {WorldBankGetPPP(countryCode, resp, t) : resp \in WBResponses}

FXResults(from, to, t) ==
    {CurrencyGetExchangeRate(from, to, resp, t) : resp \in FXResponses}

\* the adapter is not called on a cache hit, and a read is not made after
\* an earlier one failed
NotCalled == Fail(Errorf("not called"))

PPPFetch(c, enabled, countryCode, t) ==
    IF enabled /\ ~c.nil /\ CacheGetPPP(c, countryCode, t).found
    THEN {NotCalled} ELSE WBResults(countryCode, t)

RateFetch(c, enabled, from, to, t) ==
    IF enabled /\ ~c.nil /\ CacheGetExchangeRate(c, from, to, t).found
    THEN {NotCalled} ELSE FXResults(from, to, t)

----------------------------------------------------------------------------
(* errors.go: the validators *)

\* a character that UTF-8 encodes in two bytes
EAcute == "E-acute"

\* len(s): the number of bytes of the string
RECURSIVE ByteLen(_)
ByteLen(s) ==
    IF s = <<>> THEN 0
    ELSE (IF Head(s) = EAcute THEN 2 ELSE 1) + ByteLen(Tail(s))

\* a character that is a letter of either case
IsLetter(ch) ==
    \/ \E k \in DOMAIN UpperLetters : UpperLetters[k] = ch
    \/ \E k \in DOMAIN LowerLetters : LowerLetters[k] = ch

\* 'A' <= char <= 'Z'
IsUpper(ch) == \E k \in DOMAIN UpperLetters : UpperLetters[k] = ch

\* each validator returns Ok(TRUE) for nil and Fail(err) for an error
ValidateCountryCode(code) ==
    IF ByteLen(code) # 2
    THEN Fail(NewPPPError(ErrCodeInvalidInput, "country code must be 2 characters",
                          "ErrInvalidCountry"))
    ELSE IF \E i \in 1..Len(code) : ~IsUpper(code[i])
    THEN Fail(NewPPPError(ErrCodeInvalidInput, "country code must be uppercase letters",
                          "ErrInvalidCountry"))
    ELSE Ok(TRUE)

ValidateCurrencyCode(code) ==
    IF ByteLen(code) # 3
    THEN Fail(NewPPPError(ErrCodeInvalidInput, "currency code must be 3 characters",
                          "ErrInvalidCurrency"))
    ELSE IF \E i \in 1..Len(code) : ~IsUpper(code[i])
    THEN Fail(NewPPPError(ErrCodeInvalidInput, "currency code must be uppercase letters",
                          "ErrInvalidCurrency"))
    ELSE Ok(TRUE)

\* 1e15
MaxAmount == Dec(1, 15)

ValidateAmount(amount) ==
    IF RLt(amount, RInt(0))
    THEN Fail(NewPPPError(ErrCodeInvalidInput, "amount cannot be negative",
                          "ErrInvalidAmount"))
    ELSE IF amount = RInt(0)
    THEN Fail(NewPPPError(ErrCodeInvalidInput, "amount cannot be zero",
                          "ErrInvalidAmount"))
    ELSE IF RGt(amount, MaxAmount)
    THEN Fail(NewPPPError(ErrCodeInvalidInput, "amount is too large",
                          "ErrInvalidAmount"))
    ELSE Ok(TRUE)

----------------------------------------------------------------------------
(* recommend.go: rounding *)

\* a rounding to the nearest integer that takes halves toward zero
MathRoundHalfDown(a) ==
    LET num == IF a.e >= 0 THEN Abs(a.n) * Pow10(a.e) ELSE Abs(a.n)
        den == IF a.e >= 0 THEN a.d ELSE a.d * Pow10(-a.e)
        q == (2 * num + den - 1) \div (2 * den)
    IN  RInt(IF a.n < 0 THEN -q ELSE q)

\* math.Round: to the nearest integer, halves away from zero
MathRound(a) ==
    LET num == IF a.e >= 0 THEN Abs(a.n) * Pow10(a.e) ELSE Abs(a.n)
        den == IF a.e >= 0 THEN a.d ELSE a.d * Pow10(-a.e)
        q == (2 * num + den) \div (2 * den)
    IN  RInt(IF a.n < 0 THEN -q ELSE q)

noDecimalCurrencies ==
    {<<"J", "P", "Y">>, <<"K", "R", "W">>, <<"I", "D", "R">>, <<"V", "N", "D">>,
     <<"C", "L", "P">>, <<"P", "Y", "G">>, <<"R", "W", "F">>, <<"X", "A", "F">>,
     <<"X", "O", "F">>, <<"X", "P", "F">>}

RoundPrice(price, currency) ==
    IF currency \in noDecimalCurrencies THEN MathRound(price)
    ELSE RDiv(MathRound(RMul(price, RInt(100))), RInt(100))

\* the currencySymbols of FormatPrice; a character outside ASCII is written
\* by its name
currencySymbols ==
    (USD :> <<"$">>)
    @@ (<<"E", "U", "R">> :> <<"euro">>)
    @@ (<<"G", "B", "P">> :> <<"pound">>)
    @@ (<<"J", "P", "Y">> :> <<"yen">>)
    @@ (<<"C", "N", "Y">> :> <<"yen">>)
    @@ (<<"I", "N", "R">> :> <<"indian-rupee">>)
    @@ (TRY :> <<"lira">>)
    @@ (<<"R", "U", "B">> :> <<"ruble">>)
    @@ (<<"K", "R", "W">> :> <<"won">>)
    @@ (BRL :> <<"R", "$">>)
    @@ (<<"M", "X", "N">> :> <<"$">>)
    @@ (<<"C", "A", "D">> :> <<"C", "$">>)
    @@ (<<"A", "U", "D">> :> <<"A", "$">>)
    @@ (<<"C", "H", "F">> :> <<"C", "H", "F">>)
    @@ (<<"S", "E", "K">> :> <<"k", "r">>)
    @@ (<<"N", "O", "K">> :> <<"k", "r">>)
    @@ (<<"D", "K", "K">> :> <<"k", "r">>)
    @@ (<<"P", "L", "N">> :> <<"z", "l-stroke">>)
    @@ (<<"C", "Z", "K">> :> <<"K", "c-caron">>)
    @@ (<<"H", "U", "F">> :> <<"F", "t">>)
    @@ (<<"I", "L", "S">> :> <<"shekel">>)
    @@ (<<"A", "E", "D">> :> <<"dal", ".", "alef-hamza">>)
    @@ (<<"S", "A", "R">> :> <<"reh", ".", "seen">>)
    @@ (<<"Z", "A", "R">> :> <<"R">>)
    @@ (<<"N", "G", "N">> :> <<"naira">>)
    @@ (<<"E", "G", "P">> :> <<"E", "pound">>)
    @@ (<<"P", "K", "R">> :> <<"rupee">>)
    @@ (<<"B", "D", "T">> :> <<"taka">>)
    @@ (<<"V", "N", "D">> :> <<"dong">>)
    @@ (<<"T", "H", "B">> :> <<"baht">>)
    @@ (<<"M", "Y", "R">> :> <<"R", "M">>)
    @@ (<<"S", "G", "D">> :> <<"S", "$">>)
    @@ (<<"P", "H", "P">> :> <<"peso">>)
    @@ (<<"I", "D", "R">> :> <<"R", "p">>)
    @@ (<<"N", "Z", "D">> :> <<"N", "Z", "$">>)
    @@ (<<"A", "R", "S">> :> <<"$">>)
    @@ (<<"C", "L", "P">> :> <<"$">>)
    @@ (<<"C", "O", "P">> :> <<"$">>)
    @@ (<<"P", "E", "N">> :> <<"S", "/">>)

DecimalDigits == <<"0", "1", "2", "3", "4", "5", "6", "7", "8", "9">>

\* the decimal digits of the natural number n, at least width of them
RECURSIVE DigitString(_, _)
DigitString(n, width) ==
    IF n < 10 /\ width <= 1 THEN <<DecimalDigits[n + 1]>>
    ELSE DigitString(n \div 10, width - 1) \o <<DecimalDigits[(n % 10) + 1]>>

\* fmt.Sprintf("%.0f", x) and fmt.Sprintf("%.2f", x), for an x that is not
\* half-way between two results and does not round to a negative zero
FormatFloat(x, decimals) ==
    LET q == MathRound(RMul(x, RInt(Pow10(decimals))))
        m == Abs(q.n) * Pow10(q.e)
        digits == DigitString(m, decimals + 1)
        whole == SubSeq(digits, 1, Len(digits) - decimals)
        fraction == SubSeq(digits, Len(digits) - decimals + 1, Len(digits))
    IN  (IF q.n < 0 THEN <<"-">> ELSE <<>>)
            \o whole
            \o (IF decimals > 0 THEN <<".">> \o fraction ELSE <<>>)

FormatPrice(price, currency) ==
    LET rounded == RoundPrice(price, currency)
        symbol == IF currency \in DOMAIN currencySymbols
                  THEN currencySymbols[currency]
                  ELSE currency \o <<" ">>
    IN  IF currency \in {<<"E", "U", "R">>, <<"R", "U", "B">>, <<"P", "L", "N">>,
                         <<"C", "Z", "K">>, <<"H", "U", "F">>}
        THEN FormatFloat(rounded, 2) \o <<" ">> \o symbol
        ELSE IF currency \in {<<"J", "P", "Y">>, <<"K", "R", "W">>, <<"I", "D", "R">>,
                              <<"V", "N", "D">>, <<"C", "L", "P">>}
        THEN symbol \o FormatFloat(rounded, 0)
        ELSE symbol \o FormatFloat(rounded, 2)

----------------------------------------------------------------------------
(* client.go: Recommend *)

\* the currencyMap of getCurrencyForCountry
CurrencyMap ==
    {<<<<"U", "S">>, <<"U", "S", "D">>>>,
     <<<<"T", "R">>, <<"T", "R", "Y">>>>,
     <<<<"D", "E">>, <<"E", "U", "R">>>>,
     <<<<"F", "R">>, <<"E", "U", "R">>>>,
     <<<<"I", "T">>, <<"E", "U", "R">>>>,
     <<<<"E", "S">>, <<"E", "U", "R">>>>,
     <<<<"G", "B">>, <<"G", "B", "P">>>>,
     <<<<"J", "P">>, <<"J", "P", "Y">>>>,
     <<<<"C", "N">>, <<"C", "N", "Y">>>>,
     <<<<"I", "N">>, <<"I", "N", "R">>>>,
     <<<<"B", "R">>, <<"B", "R", "L">>>>,
     <<<<"R", "U">>, <<"R", "U", "B">>>>,
     <<<<"C", "A">>, <<"C", "A", "D">>>>,
     <<<<"A", "U">>, <<"A", "U", "D">>>>,
     <<<<"M", "X">>, <<"M", "X", "N">>>>,
     <<<<"K", "R">>, <<"K", "R", "W">>>>,
     <<<<"I", "D">>, <<"I", "D", "R">>>>,
     <<<<"S", "A">>, <<"S", "A", "R">>>>,
     <<<<"A", "R">>, <<"A", "R", "S">>>>,
     <<<<"Z", "A">>, <<"Z", "A", "R">>>>,
     <<<<"N", "G">>, <<"N", "G", "N">>>>,
     <<<<"E", "G">>, <<"E", "G", "P">>>>,
     <<<<"P", "K">>, <<"P", "K", "R">>>>,
     <<<<"B", "D">>, <<"B", "D", "T">>>>,
     <<<<"V", "N">>, <<"V", "N", "D">>>>,
     <<<<"T", "H">>, <<"T", "H", "B">>>>,
     <<<<"M", "Y">>, <<"M", "Y", "R">>>>,
     <<<<"S", "G">>, <<"S", "G", "D">>>>,
     <<<<"P", "H">>, <<"P", "H", "P">>>>,
     <<<<"N", "Z">>, <<"N", "Z", "D">>>>,
     <<<<"C", "H">>, <<"C", "H", "F">>>>,
     <<<<"S", "E">>, <<"S", "E", "K">>>>,
     <<<<"N", "O">>, <<"N", "O", "K">>>>,
     <<<<"D", "K">>, <<"D", "K", "K">>>>,
     <<<<"P", "L">>, <<"P", "L", "N">>>>,
     <<<<"C", "Z">>, <<"C", "Z", "K">>>>,
     <<<<"H", "U">>, <<"H", "U", "F">>>>,
     <<<<"R", "O">>, <<"R", "O", "N">>>>,
     <<<<"U", "A">>, <<"U", "A", "H">>>>,
     <<<<"I", "L">>, <<"I", "L", "S">>>>,
     <<<<"A", "E">>, <<"A", "E", "D">>>>,
     <<<<"C", "L">>, <<"C", "L", "P">>>>,
     <<<<"C", "O">>, <<"C", "O", "P">>>>,
     <<<<"P", "E">>, <<"P", "E", "N">>>>}

\* Client.getCurrencyForCountry: USD for a country the map does not have
getCurrencyForCountry(countryCode) ==
    IF \E p \in CurrencyMap : p[1] = countryCode
    THEN (CHOOSE p \in CurrencyMap : p[1] = countryCode)[2]
    ELSE USD

\* PriceRecommendation with the price rounded for the target currency
PriceRecommendationRounded(price, fromCurrency, toCurrency, ppp, rate) ==
    LET recommendedPrice == RoundPrice(RMul(price, ppp.Factor), toCurrency)
        normalPrice == RMul(price, rate.Rate)
        discountPercentage ==
            RMul(RDiv(RSub(normalPrice, recommendedPrice), normalPrice), RInt(100))
    IN  [OriginalPrice |-> price,
         OriginalCurrency |-> fromCurrency,
         RecommendedPrice |-> recommendedPrice,
         TargetCurrency |-> toCurrency,
         PPPFactor |-> ppp.Factor,
         ExchangeRate |-> rate.Rate,
         DiscountPercentage |-> discountPercentage]

\* PriceRecommendation with the discount measured against the recommended
\* price instead of the market price
PriceRecommendationMarkup(price, fromCurrency, toCurrency, ppp, rate) ==
    LET recommendedPrice == RMul(price, ppp.Factor)
        normalPrice == RMul(price, rate.Rate)
        discountPercentage ==
            RMul(RDiv(RSub(normalPrice, recommendedPrice), recommendedPrice), RInt(100))
    IN  [OriginalPrice |-> price,
         OriginalCurrency |-> fromCurrency,
         RecommendedPrice |-> recommendedPrice,
         TargetCurrency |-> toCurrency,
         PPPFactor |-> ppp.Factor,
         ExchangeRate |-> rate.Rate,
         DiscountPercentage |-> discountPercentage]

\* the PriceRecommendation Recommend builds from the PPP data and the rate
PriceRecommendation(price, fromCurrency, toCurrency, ppp, rate) ==
    LET recommendedPrice == RMul(price, ppp.Factor)
        normalPrice == RMul(price, rate.Rate)
        discountPercentage ==
            RMul(RDiv(RSub(normalPrice, recommendedPrice), normalPrice), RInt(100))
    IN  [OriginalPrice |-> price,
         OriginalCurrency |-> fromCurrency,
         RecommendedPrice |-> recommendedPrice,
         TargetCurrency |-> toCurrency,
         PPPFactor |-> ppp.Factor,
         ExchangeRate |-> rate.Rate,
         DiscountPercentage |-> discountPercentage]

\* the outcome of a pricing call: its result, the cache it leaves, the
\* lookups (Client.GetPPP and Client.GetExchangeRate calls) and provider
\* fetches it made, and what the two lookups returned
Outcome(res, c, pppLookups, rateLookups, pppFetches, rateFetches, ppp, rate) ==
    [res |-> res, cache |-> c,
     pppLookups |-> pppLookups, rateLookups |-> rateLookups,
     pppFetches |-> pppFetches, rateFetches |-> rateFetches,
     ppp |-> ppp, rate |-> rate]

\* Client.Recommend after its two reads: p is what Client.GetPPP returned, r
\* what Client.GetExchangeRate returns when it is called
RecommendFrom(p, r, price, fromCurrency, toCurrency) ==
    IF ~p.res.ok
    THEN Outcome(Fail(Wrapf("failed to get PPP data", p.res.err)), p.cache,
                 1, 0, p.fetches, 0, p.res, NotCalled)
    ELSE IF ~r.res.ok
    THEN Outcome(Fail(Wrapf("failed to get exchange rate", r.res.err)), r.cache,
                 1, 1, p.fetches, r.fetches, p.res, r.res)
    ELSE Outcome(Ok(PriceRecommendation(price, fromCurrency, toCurrency,
                                        p.res.val, r.res.val)), r.cache,
                 1, 1, p.fetches, r.fetches, p.res, r.res)

\* Client.Recommend after Client.GetPPP returned p
RecommendAfterPPP(p, enabled, price, fromCurrency, toCurrency, rate, t) ==
    RecommendFrom(p, ClientGetExchangeRate(p.cache, enabled, fromCurrency, toCurrency,
                                           rate, t),
                  price, fromCurrency, toCurrency)

\* Client.Recommend
ClientRecommend(c, enabled, duration, price, fromCurrency, toCountry, ppp, rate, t) ==
    RecommendAfterPPP(ClientGetPPP(c, enabled, duration, toCountry, ppp, t), enabled,
                      price, fromCurrency, getCurrencyForCountry(toCountry), rate, t)

----------------------------------------------------------------------------
(* recommend.go *)

StandardPricingTiers ==
    <<[Name |-> "Premium", MinPPPFactor |-> RInt(0), MaxPPPFactor |-> Dec(3, -1),
       DiscountPercentage |-> RInt(70)],
      [Name |-> "Standard", MinPPPFactor |-> Dec(3, -1), MaxPPPFactor |-> Dec(6, -1),
       DiscountPercentage |-> RInt(50)],
      [Name |-> "Regular", MinPPPFactor |-> Dec(6, -1), MaxPPPFactor |-> Dec(9, -1),
       DiscountPercentage |-> RInt(25)],
      [Name |-> "Full Price", MinPPPFactor |-> Dec(9, -1), MaxPPPFactor |-> RInt(999),
       DiscountPercentage |-> RInt(0)]>>

\* the test of one tier with the upper bound included
TierContainsClosed(tier, pppFactor) ==
    RGe(pppFactor, tier.MinPPPFactor) /\ RLe(pppFactor, tier.MaxPPPFactor)

\* getTierForPPP's test of one tier
TierContains(tier, pppFactor) ==
    RGe(pppFactor, tier.MinPPPFactor) /\ RLt(pppFactor, tier.MaxPPPFactor)

\* index of the first tier from i on that contains pppFactor, 0 when none
RECURSIVE TierIndex(_, _, _)
TierIndex(tiers, pppFactor, i) ==
    IF i > Len(tiers) THEN 0
    ELSE IF TierContains(tiers[i], pppFactor) THEN i
    ELSE TierIndex(tiers, pppFactor, i + 1)

\* RecommendationEngine.getTierForPPP: the tier, or nil
getTierForPPP(tiers, pppFactor) ==
    LET i == TierIndex(tiers, pppFactor, 1)
    IN  IF i = 0 THEN [nil |-> TRUE] ELSE [nil |-> FALSE, tier |-> tiers[i]]

\* ApplyTier with the tier's discount taken off the PPP price
ApplyTierToPPPPrice(rec, price, tiers) ==
    LET t == getTierForPPP(tiers, rec.PPPFactor)
    IN  IF t.nil THEN rec
        ELSE [rec EXCEPT
                !.RecommendedPrice =
                    RMul(rec.RecommendedPrice,
                         RSub(RInt(1), RDiv(t.tier.DiscountPercentage, RInt(100)))),
                !.DiscountPercentage = t.tier.DiscountPercentage]

\* ApplyTier with the result given in the currency of the amount
ApplyTierInOriginalCurrency(rec, price, tiers) ==
    LET t == getTierForPPP(tiers, rec.PPPFactor)
    IN  IF t.nil THEN rec
        ELSE [rec EXCEPT
                !.RecommendedPrice =
                    RMul(price, RSub(RInt(1), RDiv(t.tier.DiscountPercentage, RInt(100)))),
                !.DiscountPercentage = t.tier.DiscountPercentage,
                !.TargetCurrency = rec.OriginalCurrency,
                !.ExchangeRate = RInt(1)]

\* the override RecommendWithStrategy applies to the base recommendation
ApplyTier(rec, price, tiers) ==
    LET t == getTierForPPP(tiers, rec.PPPFactor)
    IN  IF t.nil THEN rec
        ELSE [rec EXCEPT
                !.RecommendedPrice =
                    RMul(price, RSub(RInt(1), RDiv(t.tier.DiscountPercentage, RInt(100)))),
                !.DiscountPercentage = t.tier.DiscountPercentage]

\* a call that stopped before the client was used
NoLookups(c, res) == Outcome(res, c, 0, 0, 0, 0, NotCalled, NotCalled)

\* RecommendWithStrategy once Client.Recommend has returned base
StrategyFrom(base, price, tiers) ==
    IF ~base.res.ok THEN base
    ELSE [base EXCEPT !.res = Ok(ApplyTier(base.res.val, price, tiers))]

\* RecommendationEngine.RecommendWithStrategy
EngineRecommendWithStrategy(c, enabled, duration, tiers, price, fromCurrency, toCountry, ppp, rate, t) ==
    IF ~ValidateAmount(price).ok THEN NoLookups(c, ValidateAmount(price))
    ELSE IF ~ValidateCurrencyCode(fromCurrency).ok
    THEN NoLookups(c, ValidateCurrencyCode(fromCurrency))
    ELSE IF ~ValidateCountryCode(toCountry).ok
    THEN NoLookups(c, ValidateCountryCode(toCountry))
    ELSE StrategyFrom(ClientRecommend(c, enabled, duration, price, fromCurrency,
                                      toCountry, ppp, rate, t),
                      price, tiers)

\* 0.167, "~2 months free"
AnnualDiscount == Dec(167, -3)

\* the SaaSPricing RecommendSaaS builds from the recommendation rec
SaaSPricing(rec) ==
    LET annualPrice ==
            RMul(RMul(rec.RecommendedPrice, RInt(12)), RSub(RInt(1), AnnualDiscount))
    IN  [Monthly |-> rec.RecommendedPrice,
         Annual |-> annualPrice,
         AnnualSavings |-> RSub(RMul(rec.RecommendedPrice, RInt(12)), annualPrice),
         Currency |-> rec.TargetCurrency,
         DiscountPercentage |-> rec.DiscountPercentage,
         PPPAdjusted |-> TRUE]

\* RecommendSaaS once RecommendWithStrategy has returned r
SaaSFrom(r) == IF ~r.res.ok THEN r ELSE [r EXCEPT !.res = Ok(SaaSPricing(r.res.val))]

\* RecommendationEngine.RecommendSaaS
EngineRecommendSaaS(c, enabled, duration, tiers, monthlyPrice, fromCurrency, toCountry, ppp, rate, t) ==
    SaaSFrom(EngineRecommendWithStrategy(c, enabled, duration, tiers, monthlyPrice,
                                         fromCurrency, toCountry, ppp, rate, t))

\* the adjusted price CalculateMarketBasket gives one item
AdjustedPrice(price, ppp, rate, toCurrency) ==
    RoundPrice(RMul(price, RDiv(ppp.Factor, rate.Rate)), toCurrency)

\* the prices CalculateMarketBasket computes, or the errors it can return
\* for the amounts that are not valid (Go ranges over the items in no fixed
\* order, so with several invalid amounts the error may name any of them)
BasketResults(items, ppp, rate, toCurrency) ==
    IF \E k \in DOMAIN items : ~ValidateAmount(items[k]).ok
    THEN {[ok |-> FALSE, item |-> k,
           err |-> Wrapf("invalid price for item", ValidateAmount(items[k]).err)]
            : k \in {j \in DOMAIN items : ~ValidateAmount(items[j]).ok}}
    ELSE {Ok([k \in DOMAIN items |-> AdjustedPrice(items[k], ppp, rate, toCurrency)])}

\* a basket pricing that asks the client once per item
BasketFromPerItem(p, r, items, toCurrency) ==
    IF ~p.res.ok
    THEN {Outcome(p.res, p.cache, 1, 0, p.fetches, 0, p.res, NotCalled)}
    ELSE IF ~r.res.ok
    THEN {Outcome(r.res, r.cache, 1, 1, p.fetches, r.fetches, p.res, r.res)}
    ELSE {Outcome(res, r.cache, Cardinality(DOMAIN items), Cardinality(DOMAIN items),
                  p.fetches, r.fetches, p.res, r.res)
            : res \in BasketResults(items, p.res.val, r.res.val, toCurrency)}

\* CalculateMarketBasket after its two reads: p is what Client.GetPPP
\* returned, r what Client.GetExchangeRate returns when it is called
BasketFrom(p, r, items, toCurrency) ==
    IF ~p.res.ok
    THEN {Outcome(p.res, p.cache, 1, 0, p.fetches, 0, p.res, NotCalled)}
    ELSE IF ~r.res.ok
    THEN {Outcome(r.res, r.cache, 1, 1, p.fetches, r.fetches, p.res, r.res)}
    ELSE {Outcome(res, r.cache, 1, 1, p.fetches, r.fetches, p.res, r.res)
            : res \in BasketResults(items, p.res.val, r.res.val, toCurrency)}

\* CalculateMarketBasket after Client.GetPPP returned p
BasketAfterPPP(p, enabled, items, fromCurrency, toCurrency, rate, t) ==
    BasketFrom(p, ClientGetExchangeRate(p.cache, enabled, fromCurrency, toCurrency,
                                        rate, t),
               items, toCurrency)

\* CalculateMarketBasket: the outcomes the call can have
MarketBasketOutcomes(c, enabled, duration, items, fromCurrency, toCountry, ppp, rate, t) ==
    IF ~ValidateCurrencyCode(fromCurrency).ok
    THEN {NoLookups(c, ValidateCurrencyCode(fromCurrency))}
    ELSE IF ~ValidateCountryCode(toCountry).ok
    THEN {NoLookups(c, ValidateCountryCode(toCountry))}
    ELSE IF DOMAIN items = {}
    THEN {NoLookups(c, Fail(NewPPPError(ErrCodeInvalidInput, "no items provided", "")))}
    ELSE BasketAfterPPP(ClientGetPPP(c, enabled, duration, toCountry, ppp, t), enabled,
                        items, fromCurrency, getCurrencyForCountry(toCountry), rate, t)

----------------------------------------------------------------------------
(* client.go: construction *)

\* no snapshot file has been written
NoFile == [exists |-> FALSE]

\* the callers that may call GetPPP at the same time, none of them in a call
Callers == 1..NumCallers
NoCallers == [p \in Callers |-> [pc |-> "idle"]]

\* NewClient(opts...) for one option: the state of the fresh client
NewClient(opt) ==
    IF opt.name = "WithCache"
    THEN [cacheEnabled |-> TRUE, cacheDuration |-> opt.duration,
          cache |-> NewCache(opt.duration)]
    ELSE IF opt.name = "WithoutCache"
    THEN [cacheEnabled |-> FALSE, cacheDuration |-> DefaultCacheHours,
          cache |-> NilCache]
    ELSE [cacheEnabled |-> TRUE, cacheDuration |-> DefaultCacheHours,
          cache |-> NewCache(DefaultCacheHours)]

\* the ways the client of the model is built
ClientOptions ==
    {[name |-> "none"], [name |-> "WithoutCache"],
     [name |-> "WithCache", duration |-> ShortDuration]}

\* what is recorded of an operation for the next one to look back at
Summary(op) ==
    IF op.op = "GetPPP"
    THEN [op |-> "GetPPP", country |-> op.country, at |-> op.at, res |-> op.res,
          fetches |-> op.fetches]
    ELSE IF op.op = "Recommend"
    THEN [op |-> "Recommend", args |-> op.args, res |-> op.res]
    ELSE [op |-> "other"]

Init ==
    \E opt \in ClientOptions :
        /\ cacheEnabled = NewClient(opt).cacheEnabled
        /\ cacheDuration = NewClient(opt).cacheDuration
        /\ cache = NewClient(opt).cache
        /\ pricingTiers = StandardPricingTiers
        /\ now = 0
        /\ file = NoFile
        /\ inflight = NoCallers
        /\ last = [op |-> "NewClient"]
        /\ prev = [op |-> "other"]

----------------------------------------------------------------------------
(* Operations of the Client *)

\* time passes
Tick ==
    /\ now < MaxTime
    /\ now' = now + 1
    /\ UNCHANGED <<cacheEnabled, cacheDuration, cache, pricingTiers, last, prev, file, inflight>>

\* Client.GetPPP(ctx, countryCode): the World Bank answers only when the
\* cache has no PPP data for the country
GetPPP(countryCode) ==
    \E resp \in IF cacheEnabled /\ ~cache.nil
                   /\ CacheGetPPP(cache, countryCode, now).found
                THEN {[kind |-> "unused"]} ELSE WBResponses :
        LET r == ClientGetPPP(cache, cacheEnabled, cacheDuration, countryCode,
                              IF resp.kind = "unused" THEN NotCalled
                              ELSE WorldBankGetPPP(countryCode, resp, now), now)
        IN  /\ cache' = r.cache
            /\ last' = [op |-> "GetPPP", country |-> countryCode, at |-> now,
                        res |-> r.res, fetches |-> r.fetches, resp |-> resp]
            /\ prev' = Summary(last)
            /\ UNCHANGED <<cacheEnabled, cacheDuration, pricingTiers, now, file, inflight>>

\* Client.GetExchangeRate(ctx, from, to)
GetExchangeRate(from, to) ==
    \E resp \in FXResponses :
        LET r == ClientGetExchangeRate(cache, cacheEnabled, from, to,
                                       CurrencyGetExchangeRate(from, to, resp, now), now)
        IN  /\ cache' = r.cache
            /\ last' = [op |-> "GetExchangeRate", from |-> from, to |-> to, at |-> now,
                        res |-> r.res, fetches |-> r.fetches]
            /\ prev' = Summary(last)
            /\ UNCHANGED <<cacheEnabled, cacheDuration, pricingTiers, now, file, inflight>>

\* Client.ClearCache()
ClearCache ==
    /\ cache' = IF cacheEnabled /\ ~cache.nil THEN CacheClear(cache) ELSE cache
    /\ last' = [op |-> "ClearCache"]
    /\ prev' = Summary(last)
    /\ UNCHANGED <<cacheEnabled, cacheDuration, pricingTiers, now, file, inflight>>

----------------------------------------------------------------------------
(* client.go: ComparePPP *)

\* the CountryComparison of the i-th country code
Comparison(code, ppp, i) ==
    [Country |-> code,
     Factor |-> ppp.Factor,
     PercentOfUS |-> RMul(RDiv(RInt(1), ppp.Factor), RInt(100)),
     Rank |-> i]

\* the loop over the country codes from the i-th on: acc holds the
\* comparisons so far, the cache, what each Client.GetPPP returned and the
\* provider fetches made; ppps[i] is what the provider returns if asked for
\* the i-th code
RECURSIVE CompareLoop(_, _, _, _, _, _, _)
CompareLoop(acc, enabled, duration, countryCodes, ppps, i, t) ==
    IF i > Len(countryCodes) THEN acc
    ELSE LET g == ClientGetPPP(acc.cache, enabled, duration, countryCodes[i], ppps[i], t)
         IN  CompareLoop(
                 [comparisons |->
                      IF g.res.ok
                      THEN Append(acc.comparisons, Comparison(countryCodes[i], g.res.val, i))
                      ELSE acc.comparisons,
                  cache |-> g.cache,
                  got |-> Append(acc.got, g.res),
                  fetches |-> acc.fetches + g.fetches],
                 enabled, duration, countryCodes, ppps, i + 1, t)

Swap(s, i, j) == [s EXCEPT ![i] = s[j], ![j] = s[i]]

\* the inner loop of the sort that never exchanges
RECURSIVE SortInnerNoSwap(_, _, _)
SortInnerNoSwap(s, i, j) ==
    IF j > Len(s) THEN s ELSE SortInnerNoSwap(s, i, j + 1)

\* the inner loop of the sort: position i against the positions from j on
RECURSIVE SortInner(_, _, _)
SortInner(s, i, j) ==
    IF j > Len(s) THEN s
    ELSE SortInner(IF RGt(s[i].Factor, s[j].Factor) THEN Swap(s, i, j) ELSE s, i, j + 1)

\* the outer loop of the sort, from position i on
RECURSIVE SortOuter(_, _)
SortOuter(s, i) ==
    IF i > Len(s) THEN s ELSE SortOuter(SortInner(s, i, i + 1), i + 1)

\* the ranks by position
UpdateRanks(s) == [i \in 1..Len(s) |-> [s[i] EXCEPT !.Rank = i]]

\* Client.ComparePPP
ClientComparePPP(c, enabled, duration, countryCodes, ppps, t) ==
    LET acc == CompareLoop([comparisons |-> <<>>, cache |-> c, got |-> <<>>, fetches |-> 0],
                           enabled, duration, countryCodes, ppps, 1, t)
    IN  [res |-> Ok(UpdateRanks(SortOuter(acc.comparisons, 1))),
         cache |-> acc.cache, got |-> acc.got, fetches |-> acc.fetches]

----------------------------------------------------------------------------
(* worldbank.go: GetHistoricalPPP; client.go: AnalyzePPPTrend *)

\* the PPPData of the data points from the i-th on that have a value > 0
RECURSIVE HistoricalResults(_, _, _, _)
HistoricalResults(countryCode, points, i, t) ==
    IF i > Len(points) THEN <<>>
    ELSE IF ~points[i].null /\ RGt(points[i].x, RInt(0))
    THEN <<[CountryCode |-> countryCode,
            Year |-> YearOf(i),
            Factor |-> points[i].x,
            LastUpdated |-> t,
            Source |-> "World Bank"]>>
             \o HistoricalResults(countryCode, points, i + 1, t)
    ELSE HistoricalResults(countryCode, points, i + 1, t)

\* WorldBankClient.GetHistoricalPPP for the response resp, at time t
WorldBankGetHistoricalPPP(countryCode, resp, t) ==
    IF resp.kind = "failed" THEN Fail(Errorf("failed to fetch historical PPP data"))
    ELSE IF resp.kind = "short" THEN Fail(Errorf("invalid response format"))
    ELSE Ok(HistoricalResults(countryCode, resp.points, 1, t))

\* the sum of the factors of the elements of data from the i-th on
RECURSIVE SumFactors(_, _)
SumFactors(data, i) ==
    IF i > Len(data) THEN RInt(0)
    ELSE RAdd(data[i].Factor, SumFactors(data, i + 1))

\* the sum of the squared deviations from average, from the i-th element on
RECURSIVE SumSquares(_, _, _)
SumSquares(data, average, i) ==
    IF i > Len(data) THEN RInt(0)
    ELSE RAdd(RMul(RSub(data[i].Factor, average), RSub(data[i].Factor, average)),
              SumSquares(data, average, i + 1))

\* a classification that counts a change of exactly 10 percent as a trend
TrendOfInclusive(data, firstYear, lastYear) ==
    LET change == RMul(RDiv(RSub(lastYear, firstYear), firstYear), RInt(100))
    IN  IF Len(data) >= 2 /\ RGe(change, RInt(10)) THEN "increasing"
        ELSE IF Len(data) >= 2 /\ RLe(change, RInt(-10)) THEN "decreasing"
        ELSE "stable"

\* firstYear is the oldest factor of data, lastYear the newest
TrendOf(data, firstYear, lastYear) ==
    LET change == RMul(RDiv(RSub(lastYear, firstYear), firstYear), RInt(100))
    IN  IF Len(data) >= 2 /\ RGt(change, RInt(10)) THEN "increasing"
        ELSE IF Len(data) >= 2 /\ RLt(change, RInt(-10)) THEN "decreasing"
        ELSE "stable"

\* an analysis that divides by len(data) - 1 whatever the length: for one
\* data point the float64 division 0 / 0 gives NaN
TrendAnalysisUnguarded(countryCode, startYear, endYear, data) ==
    LET average == RDiv(SumFactors(data, 1), RInt(Len(data)))
    IN  [Country |-> countryCode,
         StartYear |-> startYear,
         EndYear |-> endYear,
         Average |-> average,
         Trend |-> TrendOf(data, data[Len(data)].Factor, data[1].Factor),
         Volatility |-> IF Len(data) > 1
                        THEN RDiv(SumSquares(data, average, 1), RInt(Len(data) - 1))
                        ELSE NaN,
         DataPoints |-> Len(data)]

\* the analysis AnalyzePPPTrend computes from data that is not empty
TrendAnalysis(countryCode, startYear, endYear, data) ==
    LET average == RDiv(SumFactors(data, 1), RInt(Len(data)))
    IN  [Country |-> countryCode,
         StartYear |-> startYear,
         EndYear |-> endYear,
         Average |-> average,
         Trend |-> TrendOf(data, data[Len(data)].Factor, data[1].Factor),
         Volatility |-> IF Len(data) > 1
                        THEN RDiv(SumSquares(data, average, 1), RInt(Len(data) - 1))
                        ELSE RInt(0),
         DataPoints |-> Len(data)]

\* Client.AnalyzePPPTrend once GetHistoricalPPP has returned hist
ClientAnalyzePPPTrend(countryCode, startYear, endYear, hist) ==
    IF ~hist.ok THEN hist
    ELSE IF Len(hist.val) = 0 THEN Fail(Errorf("no data available for analysis"))
    ELSE Ok(TrendAnalysis(countryCode, startYear, endYear, hist.val))

----------------------------------------------------------------------------
(* Operations of the pricing engine *)

\* amounts Client.Recommend is called with: an amount and its double
RecommendAmounts == {Dec(2999, -2), Dec(5998, -2)}
\* amounts the validating operations are called with, valid and not
Amounts == {Dec(2999, -2), RInt(0)}
\* source currencies and target countries, valid and not
PricingCurrencies == {USD, <<"u", "s", "d">>}
PricingCountries == {TR, <<"T", "R", "Y">>}

\* tier lists SetPricingTiers is called with: the standard one, a single
\* tier, and two overlapping tiers
TierLists ==
    {StandardPricingTiers,
     <<[Name |-> "Mid", MinPPPFactor |-> Dec(5, -1), MaxPPPFactor |-> RInt(20),
        DiscountPercentage |-> RInt(40)]>>,
     <<[Name |-> "Wide", MinPPPFactor |-> RInt(0), MaxPPPFactor |-> RInt(1),
        DiscountPercentage |-> RInt(10)],
       [Name |-> "Upper", MinPPPFactor |-> Dec(3, -1), MaxPPPFactor |-> RInt(20),
        DiscountPercentage |-> RInt(30)]>>}

ItemNameList == <<"Basic Plan", "Pro Plan", "Enterprise", "Team">>
ItemNames == {ItemNameList[k] : k \in 1..MaxItems}
ItemAmounts == {Dec(999, -2), RInt(0)}
\* the baskets: every map from at most MaxItems names to amounts
Baskets == UNION {[S -> ItemAmounts] : S \in SUBSET ItemNames}

\* the record of a completed pricing call
Call(op, args, r) ==
    [op |-> op, args |-> args, res |-> r.res,
     pppLookups |-> r.pppLookups, rateLookups |-> r.rateLookups,
     pppFetches |-> r.pppFetches, rateFetches |-> r.rateFetches,
     ppp |-> r.ppp, rate |-> r.rate]

\* Client.Recommend(ctx, price, fromCurrency, toCountry)
Recommend(price, fromCurrency, toCountry) ==
    \E ppp \in PPPFetch(cache, cacheEnabled, toCountry, now) :
    \E rate \in RateFetch(cache, cacheEnabled, fromCurrency,
                          getCurrencyForCountry(toCountry), now) :
        LET r == ClientRecommend(cache, cacheEnabled, cacheDuration, price,
                                 fromCurrency, toCountry, ppp, rate, now)
        IN  /\ cache' = r.cache
            /\ last' = Call("Recommend",
                            [price |-> price, fromCurrency |-> fromCurrency,
                             toCountry |-> toCountry], r)
            /\ prev' = Summary(last)
            /\ UNCHANGED <<cacheEnabled, cacheDuration, pricingTiers, now, file, inflight>>

\* RecommendationEngine.SetPricingTiers(tiers)
SetPricingTiers(tiers) ==
    /\ pricingTiers' = tiers
    /\ last' = [op |-> "SetPricingTiers"]
    /\ prev' = Summary(last)
    /\ UNCHANGED <<cacheEnabled, cacheDuration, cache, now, file, inflight>>

\* the factors getTierForPPP is called with: tenths from 0 to 1.2, which
\* cross the bounds of the standard tiers, and the whole numbers around 999
TierFactors == {Dec(n, -1) : n \in 0..12} \cup {RInt(n) : n \in 997..1001}

\* r.getTierForPPP(pppFactor) under the tiers of the engine
GetTierForPPP(pppFactor) ==
    /\ last' = [op |-> "getTierForPPP", pppFactor |-> pppFactor,
                res |-> getTierForPPP(pricingTiers, pppFactor)]
    /\ prev' = Summary(last)
    /\ UNCHANGED <<cacheEnabled, cacheDuration, cache, pricingTiers, now, file, inflight>>

\* RecommendationEngine.RecommendWithStrategy(ctx, price, fromCurrency, toCountry)
RecommendWithStrategy(price, fromCurrency, toCountry) ==
    \E ppp \in PPPFetch(cache, cacheEnabled, toCountry, now) :
    \E rate \in RateFetch(cache, cacheEnabled, fromCurrency,
                          getCurrencyForCountry(toCountry), now) :
        LET r == EngineRecommendWithStrategy(cache, cacheEnabled, cacheDuration,
                     pricingTiers, price, fromCurrency, toCountry, ppp, rate, now)
        IN  /\ cache' = r.cache
            /\ last' = Call("RecommendWithStrategy",
                            [price |-> price, fromCurrency |-> fromCurrency,
                             toCountry |-> toCountry], r)
            /\ prev' = Summary(last)
            /\ UNCHANGED <<cacheEnabled, cacheDuration, pricingTiers, now, file, inflight>>

\* RecommendationEngine.RecommendSaaS(ctx, monthlyPrice, fromCurrency, toCountry)
RecommendSaaS(monthlyPrice, fromCurrency, toCountry) ==
    \E ppp \in PPPFetch(cache, cacheEnabled, toCountry, now) :
    \E rate \in RateFetch(cache, cacheEnabled, fromCurrency,
                          getCurrencyForCountry(toCountry), now) :
        LET r == EngineRecommendSaaS(cache, cacheEnabled, cacheDuration,
                     pricingTiers, monthlyPrice, fromCurrency, toCountry, ppp, rate, now)
        IN  /\ cache' = r.cache
            /\ last' = Call("RecommendSaaS",
                            [price |-> monthlyPrice, fromCurrency |-> fromCurrency,
                             toCountry |-> toCountry], r)
            /\ prev' = Summary(last)
            /\ UNCHANGED <<cacheEnabled, cacheDuration, pricingTiers, now, file, inflight>>

\* CalculateMarketBasket(ctx, client, items, fromCurrency, toCountry): the
\* World Bank is asked only when the inputs pass validation and the cache
\* has no PPP data, the currency API only when the PPP lookup succeeded and
\* the cache has no rate
CalculateMarketBasket(items, fromCurrency, toCountry) ==
    \E ppp \in IF /\ ValidateCurrencyCode(fromCurrency).ok
                  /\ ValidateCountryCode(toCountry).ok
                  /\ DOMAIN items # {}
               THEN PPPFetch(cache, cacheEnabled, toCountry, now)
               ELSE {NotCalled} :
    \E rate \in IF ClientGetPPP(cache, cacheEnabled, cacheDuration, toCountry,
                                ppp, now).res.ok
                THEN RateFetch(cache, cacheEnabled, fromCurrency,
                               getCurrencyForCountry(toCountry), now)
                ELSE {NotCalled} :
    \E r \in MarketBasketOutcomes(cache, cacheEnabled, cacheDuration, items,
                                  fromCurrency, toCountry, ppp, rate, now) :
        /\ cache' = r.cache
        /\ last' = Call("CalculateMarketBasket",
                        [items |-> items, fromCurrency |-> fromCurrency,
                         toCountry |-> toCountry], r)
        /\ prev' = Summary(last)
        /\ UNCHANGED <<cacheEnabled, cacheDuration, pricingTiers, now, file, inflight>>

----------------------------------------------------------------------------
(* Operations of the analytics *)

\* the country code lists ComparePPP is called with
CodeLists == UNION {[1..n -> {TR, BR}] : n \in 0..MaxCodes}

\* ComparePPP drops the error of a failed read, so one failing response
\* stands for all of them here
CompareResults(countryCode, t) ==
    {WorldBankGetPPP(countryCode, resp, t) :
        resp \in {r \in WBResponses :
                    r.kind = "failed"
                        \/ (r.kind = "data" /\ FirstPositive(r.points, 1) # 0)}}

\* what the provider may return for each of the country codes from the
\* i-th on
RECURSIVE CompareResultLists(_, _, _)
CompareResultLists(countryCodes, i, t) ==
    IF i > Len(countryCodes) THEN {<<>>}
    ELSE {<<r>> \o rest : r \in CompareResults(countryCodes[i], t),
                          rest \in CompareResultLists(countryCodes, i + 1, t)}

\* Client.ComparePPP(ctx, countryCodes)
ComparePPP(countryCodes) ==
    \E ppps \in CompareResultLists(countryCodes, 1, now) :
        LET r == ClientComparePPP(cache, cacheEnabled, cacheDuration, countryCodes,
                                  ppps, now)
        IN  /\ cache' = r.cache
            /\ last' = [op |-> "ComparePPP", countryCodes |-> countryCodes,
                        res |-> r.res, got |-> r.got, fetches |-> r.fetches]
            /\ prev' = Summary(last)
            /\ UNCHANGED <<cacheEnabled, cacheDuration, pricingTiers, now, file, inflight>>

\* Client.AnalyzePPPTrend(ctx, countryCode, startYear, endYear) when the
\* World Bank answers with one of responses
AnalyzePPPTrendOver(responses, countryCode, startYear, endYear) ==
    \E resp \in responses :
        /\ last' = [op |-> "AnalyzePPPTrend", country |-> countryCode, resp |-> resp,
                    res |-> ClientAnalyzePPPTrend(countryCode, startYear, endYear,
                               WorldBankGetHistoricalPPP(countryCode, resp, now))]
        /\ prev' = Summary(last)
        /\ UNCHANGED <<cacheEnabled, cacheDuration, cache, pricingTiers, now, file, inflight>>

\* Client.AnalyzePPPTrend(ctx, countryCode, startYear, endYear)
AnalyzePPPTrend(countryCode, startYear, endYear) ==
    AnalyzePPPTrendOver(WBResponses, countryCode, startYear, endYear)

\* the values of the data points of a history: null, or a factor; the
\* factors are exactly 10 percent, about 9 and 11 percent, and about 20
\* percent apart
TrendPoints == {Null, Val(RInt(1)), Val(Dec(11, -1)), Val(Dec(9, -1))}

\* the histories the World Bank may return for the years 0..SeriesLen,
\* newest first
TrendResponses ==
    {[kind |-> "failed"], [kind |-> "short"]}
        \cup {[kind |-> "data", points |-> s] : s \in [1..(SeriesLen + 1) -> TrendPoints]}

----------------------------------------------------------------------------
(* The package-level functions on the default client *)

\* the index of the first country code from the i-th on that
\* ValidateCountryCode rejects, 0 when there is none
RECURSIVE FirstInvalidCountry(_, _)
FirstInvalidCountry(toCountries, i) ==
    IF i > Len(toCountries) THEN 0
    ELSE IF ~ValidateCountryCode(toCountries[i]).ok THEN i
    ELSE FirstInvalidCountry(toCountries, i + 1)

\* results[country] = price
MapSet(results, country, price) ==
    [k \in DOMAIN results \cup {country} |->
        IF k = country THEN price ELSE results[k]]

\* one turn of the loop of BatchRecommend: rec is what Client.Recommend
\* returned for the country
BatchStep(acc, country, rec) ==
    [results |-> MapSet(acc.results, country,
                        IF rec.res.ok THEN rec.res.val.RecommendedPrice ELSE RInt(0)),
     lastError |-> IF rec.res.ok THEN acc.lastError
                   ELSE [nil |-> FALSE, err |-> rec.res.err],
     cache |-> rec.cache,
     calls |-> Append(acc.calls, rec.res),
     pppFetches |-> acc.pppFetches + rec.pppFetches,
     rateFetches |-> acc.rateFetches + rec.rateFetches]

\* the loop of BatchRecommend over the countries from the i-th on: acc holds
\* the results map, lastError, the client's cache, what each
\* Client.Recommend returned and the provider fetches made; answers[i] is
\* what the two providers return if asked during the i-th call
RECURSIVE BatchLoop(_, _, _, _, _, _, _, _, _)
BatchLoop(acc, enabled, duration, price, fromCurrency, toCountries, answers, i, t) ==
    IF i > Len(toCountries) THEN acc
    ELSE BatchLoop(BatchStep(acc, toCountries[i],
                             ClientRecommend(acc.cache, enabled, duration, price,
                                             fromCurrency, toCountries[i],
                                             answers[i].ppp, answers[i].rate, t)),
                   enabled, duration, price, fromCurrency, toCountries, answers, i + 1, t)

\* a BatchRecommend that gives up as soon as one country has failed
BatchReturnAnyFailed(acc) ==
    [res |-> IF ~acc.lastError.nil
             THEN Fail(NewPPPError(ErrCodeAPIError,
                                   "failed to get recommendations for all countries",
                                   acc.lastError.err.sentinel))
             ELSE Ok(acc.results),
     cache |-> acc.cache, calls |-> acc.calls,
     pppFetches |-> acc.pppFetches, rateFetches |-> acc.rateFetches]

\* the end of BatchRecommend: the error when no price is positive and an
\* error was seen, the results map otherwise
BatchReturn(acc) ==
    LET allFailed == ~\E k \in DOMAIN acc.results : RGt(acc.results[k], RInt(0))
    IN  [res |-> IF allFailed /\ ~acc.lastError.nil
                 THEN Fail(NewPPPError(ErrCodeAPIError,
                                       "failed to get recommendations for all countries",
                                       acc.lastError.err.sentinel))
                 ELSE Ok(acc.results),
         cache |-> acc.cache, calls |-> acc.calls,
         pppFetches |-> acc.pppFetches, rateFetches |-> acc.rateFetches]

\* a BatchRecommend that stopped at validation
BatchInvalid(c, res) ==
    [res |-> res, cache |-> c, calls |-> <<>>, pppFetches |-> 0, rateFetches |-> 0]

\* BatchRecommend(price, fromCurrency, toCountries) on the default client
DefaultBatchRecommend(c, enabled, duration, price, fromCurrency, toCountries, answers, t) ==
    IF ~ValidateAmount(price).ok THEN BatchInvalid(c, ValidateAmount(price))
    ELSE IF ~ValidateCurrencyCode(fromCurrency).ok
    THEN BatchInvalid(c, ValidateCurrencyCode(fromCurrency))
    ELSE IF Len(toCountries) = 0
    THEN BatchInvalid(c, Fail(NewPPPError(ErrCodeInvalidInput, "no countries provided", "")))
    ELSE IF FirstInvalidCountry(toCountries, 1) # 0
    THEN BatchInvalid(c, ValidateCountryCode(
                             toCountries[FirstInvalidCountry(toCountries, 1)]))
    ELSE BatchReturn(BatchLoop([results |-> <<>>, lastError |-> [nil |-> TRUE],
                                cache |-> c, calls |-> <<>>,
                                pppFetches |-> 0, rateFetches |-> 0],
                               enabled, duration, price, fromCurrency, toCountries,
                               answers, 1, t))

\* the country lists BatchRecommend is called with: the lists of at most
\* MaxBatch codes, a country may repeat, and one with a lowercase code
BatchLists ==
    UNION {[1..n -> {TR, BR}] : n \in 0..MaxBatch} \cup {<<TR, <<"t", "r">>>>}

\* what the providers may answer during one Client.Recommend of the batch:
\* the World Bank fails, or it has this year's factor and the currency API
\* fails or has the rate
BatchAnswers(fromCurrency, toCountry, t) ==
    {[ppp |-> WorldBankGetPPP(toCountry, [kind |-> "failed"], t), rate |-> NotCalled]}
        \cup {[ppp |-> WorldBankGetPPP(toCountry,
                           [kind |-> "data",
                            points |-> [y \in 1..SeriesLen |-> Val(FactorHistory[YearOf(y)])]],
                           t),
               rate |-> CurrencyGetExchangeRate(fromCurrency,
                            getCurrencyForCountry(toCountry), resp, t)]
                : resp \in {[kind |-> "failed"],
                            [kind |-> "rate", rate |-> Dec(4047, -2)]}}

\* the answers for each call of the batch from the i-th on
RECURSIVE BatchAnswerLists(_, _, _, _)
BatchAnswerLists(fromCurrency, toCountries, i, t) ==
    IF i > Len(toCountries) THEN {<<>>}
    ELSE {<<a>> \o rest : a \in BatchAnswers(fromCurrency, toCountries[i], t),
                          rest \in BatchAnswerLists(fromCurrency, toCountries, i + 1, t)}

\* BatchRecommend(price, fromCurrency, toCountries): the providers are asked
\* only when the inputs pass validation
BatchRecommend(price, fromCurrency, toCountries) ==
    \E answers \in IF /\ ValidateAmount(price).ok
                      /\ ValidateCurrencyCode(fromCurrency).ok
                      /\ FirstInvalidCountry(toCountries, 1) = 0
                   THEN BatchAnswerLists(fromCurrency, toCountries, 1, now)
                   ELSE {<<>>} :
    \E r \in {DefaultBatchRecommend(cache, cacheEnabled, cacheDuration, price,
                                    fromCurrency, toCountries, answers, now)} :
        /\ cache' = r.cache
        /\ last' = [op |-> "BatchRecommend",
                    args |-> [price |-> price, fromCurrency |-> fromCurrency,
                              toCountries |-> toCountries],
                    res |-> r.res, calls |-> r.calls,
                    pppFetches |-> r.pppFetches, rateFetches |-> r.rateFetches]
        /\ prev' = Summary(last)
        /\ UNCHANGED <<cacheEnabled, cacheDuration, pricingTiers, now, file, inflight>>

----------------------------------------------------------------------------
(* Calls of the validators *)

\* the amounts ValidateAmount is called with: those of TestValidateAmount,
\* the ends of the accepted range and what lies next to them, and the
\* float64 values that are no numbers
AmountInputs ==
    {Dec(1005, -1), Dec(1, -2), RInt(0), RInt(-10), Dec(1, 16), RInt(-5),
     Dec(1, -9), Dec(-1, -9), MaxAmount, Dec(11, 14), Dec(999, 12),
     NaN, PosInf, NegInf}

\* the characters of the codes: the first and the last capital letter, the
\* characters before and after them in ASCII, a small letter, a digit and a
\* character outside ASCII
CodeChars == {"A", "Z", "@", "[", "a", "1", EAcute}

\* the codes of at most MaxCodeLen characters
CodeInputs == UNION {[1..n -> CodeChars] : n \in 0..MaxCodeLen}

\* a call of a pure function that is about to be made
Pending(fn, arg) == [op |-> "call", fn |-> fn, arg |-> arg]

IsPending(fn) == last.op = "call" /\ last.fn = fn

CallValidateAmount ==
    /\ IsPending("ValidateAmount")
    /\ last' = [op |-> "ValidateAmount", amount |-> last.arg,
                res |-> ValidateAmount(last.arg)]
    /\ prev' = Summary(last)
    /\ UNCHANGED <<cacheEnabled, cacheDuration, cache, pricingTiers, now, file, inflight>>

CallValidateCountryCode ==
    /\ IsPending("ValidateCountryCode")
    /\ last' = [op |-> "ValidateCountryCode", code |-> last.arg,
                res |-> ValidateCountryCode(last.arg)]
    /\ prev' = Summary(last)
    /\ UNCHANGED <<cacheEnabled, cacheDuration, cache, pricingTiers, now, file, inflight>>

CallValidateCurrencyCode ==
    /\ IsPending("ValidateCurrencyCode")
    /\ last' = [op |-> "ValidateCurrencyCode", code |-> last.arg,
                res |-> ValidateCurrencyCode(last.arg)]
    /\ prev' = Summary(last)
    /\ UNCHANGED <<cacheEnabled, cacheDuration, cache, pricingTiers, now, file, inflight>>

----------------------------------------------------------------------------
(* Calls of FormatPrice *)

\* the prices FormatPrice is called with: those of TestFormatPrice, a price
\* below one, a price with more than two decimals and a negative price
FormatPrices ==
    {Dec(9999, -2), Dec(4999, -2), Dec(755, -1), Dec(123456, -2), RInt(1000),
     RInt(100), Dec(5, -2), Dec(1234567, -3), RInt(0), Dec(-125, -1)}

\* the currencies FormatPrice is called with: those with a symbol, those
\* RoundPrice rounds to integers, and two codes without a symbol
FormatCurrencies ==
    DOMAIN currencySymbols \cup noDecimalCurrencies
        \cup {<<"X", "X", "X">>, <<"u", "s", "d">>}

CallFormatPrice ==
    /\ IsPending("FormatPrice")
    /\ last' = [op |-> "FormatPrice", price |-> last.arg.price,
                currency |-> last.arg.currency,
                res |-> FormatPrice(last.arg.price, last.arg.currency)]
    /\ prev' = Summary(last)
    /\ UNCHANGED <<cacheEnabled, cacheDuration, cache, pricingTiers, now, file, inflight>>

----------------------------------------------------------------------------
(* Calls of RoundPrice *)

\* the prices RoundPrice is called with: those of TestRoundPrice, prices
\* half-way between two results, and prices next to them, of both signs
PriceInputs ==
    {Dec(99996, -3), Dec(49994, -3), Dec(123456, -2), Dec(5000099, -2),
     Dec(123456, -3), RInt(0), RInt(100), Dec(5, -3), Dec(15, -3), Dec(4, -3),
     Dec(6, -3), Dec(5, -1), Dec(15, -1), Dec(25, -1), Dec(49, -2), Dec(51, -2),
     Dec(-5, -3), Dec(-5, -1), Dec(-25, -1), Dec(-1005, -3), Dec(-123456, -2)}

\* the currencies RoundPrice is called with: those without decimals, three
\* with decimals, and a code in small letters
CurrencyInputs ==
    noDecimalCurrencies
        \cup {USD, TRY, <<"E", "U", "R">>, <<"j", "p", "y">>}

\* RoundPrice(price, currency), and RoundPrice of its result
CallRoundPrice ==
    /\ IsPending("RoundPrice")
    /\ last' = [op |-> "RoundPrice", price |-> last.arg.price,
                currency |-> last.arg.currency,
                res |-> RoundPrice(last.arg.price, last.arg.currency),
                again |-> RoundPrice(RoundPrice(last.arg.price, last.arg.currency),
                                     last.arg.currency)]
    /\ prev' = Summary(last)
    /\ UNCHANGED <<cacheEnabled, cacheDuration, cache, pricingTiers, now, file, inflight>>

----------------------------------------------------------------------------
(* Export and import of the cache *)

\* Client.ExportCache
ClientExportCache(c, enabled, f, t, written) ==
    IF ~enabled \/ c.nil
    THEN [res |-> Fail(Errorf("cache is disabled")), file |-> f]
    ELSE CacheExportToFile(c, f, t, written)

\* Client.ImportCache
ClientImportCache(c, enabled, f, t) ==
    IF ~enabled \/ c.nil
    THEN [res |-> Fail(Errorf("cache is disabled")), cache |-> c]
    ELSE CacheImportFromFile(c, f, t)

ExportCache ==
    \E written \in BOOLEAN :
    \E r \in {ClientExportCache(cache, cacheEnabled, file, now, written)} :
        /\ file' = r.file
        /\ last' = [op |-> "ExportCache", res |-> r.res, at |-> now]
        /\ prev' = Summary(last)
        /\ UNCHANGED <<cacheEnabled, cacheDuration, cache, pricingTiers, now, inflight>>

ImportCache ==
    \E r \in {ClientImportCache(cache, cacheEnabled, file, now)} :
        /\ cache' = r.cache
        /\ last' = [op |-> "ImportCache", res |-> r.res, at |-> now,
                    before |-> cache]
        /\ prev' = Summary(last)
        /\ UNCHANGED <<cacheEnabled, cacheDuration, pricingTiers, now, file, inflight>>

\* the data the entries of the model hold
SamplePPP(countryCode) ==
    [CountryCode |-> countryCode, Year |-> 1, Factor |-> Dec(3, -1),
     LastUpdated |-> 0, Source |-> "World Bank"]

SampleRate(from, to) ==
    [From |-> from, To |-> to, Rate |-> Dec(4047, -2), LastUpdated |-> 0]

SampleCountries == <<[ID |-> TR, Name |-> <<"T", "u", "r", "k", "e", "y">>]>>

SampleIndicators == <<[ID |-> <<"P", "A">>, Name |-> <<"P", "P", "P">>]>>

\* the calls that fill a cache at time 0: Cache.SetPPP for a country and
\* for the empty country code, SetExchangeRate, SetCountries, and
\* SetIndicators for the empty search
Entries == 1..5

PutEntry(c, i) ==
    CASE i = 1 -> CacheSetPPP(c, TR, SamplePPP(TR), ShortDuration * Hour, 0)
      [] i = 2 -> CacheSetPPP(c, <<>>, SamplePPP(<<>>), DefaultExpiration, 0)
      [] i = 3 -> CacheSetExchangeRate(c, USD, TRY, SampleRate(USD, TRY),
                                       DefaultExpiration, 0)
      [] i = 4 -> CacheSetCountries(c, SampleCountries, DefaultExpiration, 0)
      [] OTHER -> CacheSetIndicators(c, <<>>, SampleIndicators, DefaultExpiration, 0)

RECURSIVE Populate(_, _)
Populate(c, entries) ==
    IF entries = {} THEN c
    ELSE LET i == CHOOSE k \in entries : TRUE
         IN  Populate(PutEntry(c, i), entries \ {i})

OriginalCaches ==
    {Populate(NewCache(DefaultCacheHours), entries) : entries \in SUBSET Entries}

\* files that were not written by ExportToFile: a text that is no JSON
\* object, the text null, and an object with one good PPP entry, three
\* entries whose payload is of the wrong shape, one under a key of no
\* known prefix, and an empty list of countries
OtherBodies ==
    {JString(<<"x">>),
     JNull,
     JObject((CacheKeyPPP(BR) :> MarshalPPPData(SamplePPP(BR)))
             @@ (CacheKeyPPP(ZZ) :> JString(<<"x">>))
             @@ (CacheKeyPPP(TR) :> JObject([year |-> JNumber(Dec(15, -1))]))
             @@ (<<"f", "o", "o", ":", "b", "a", "r">> :> JNumber(RInt(1)))
             @@ (CacheKeyExchangeRate(USD, TRY)
                     :> JObject([rate |-> JString(<<"x">>)]))
             @@ (CacheKeyCountries :> JArray(<<>>)))}

\* another program writes the file
WriteFile(body) ==
    /\ file' = [exists |-> TRUE, body |-> body, exported |-> FALSE,
                source |-> NilCache, at |-> 0]
    /\ last' = [op |-> "WriteFile"]
    /\ prev' = Summary(last)
    /\ UNCHANGED <<cacheEnabled, cacheDuration, cache, pricingTiers, now, inflight>>

----------------------------------------------------------------------------
(* Client.GetPPP called by several goroutines: the lookup, the provider    *)
(* call and the store of one call are steps of their own, and the steps of  *)
(* different callers interleave.  The cache is safe for concurrent use,     *)
(* so each lookup and each store is atomic.                                 *)

\* the store of Client.GetPPP that leaves an entry that is there
StoreFetchedIfAbsent(c, enabled, duration, countryCode, ppp, t) ==
    IF enabled /\ ~c.nil /\ ~CacheGetPPP(c, countryCode, t).found
    THEN CacheSetPPP(c, countryCode, ppp, duration, t)
    ELSE c

\* the store of Client.GetPPP after a fetch
StoreFetched(c, enabled, duration, countryCode, ppp, t) ==
    IF enabled /\ ~c.nil
    THEN CacheSetPPP(c, countryCode, ppp, duration, t)
    ELSE c

\* the caller enters GetPPP and looks into the cache: on a hit it returns
BeginGetPPP(p, countryCode) ==
    /\ inflight[p].pc = "idle"
    /\ LET hit == IF cacheEnabled /\ ~cache.nil
                  THEN CacheGetPPP(cache, countryCode, now)
                  ELSE [found |-> FALSE]
       IN  inflight' = [inflight EXCEPT ![p] =
               IF hit.found
               THEN [pc |-> "done", country |-> countryCode, missed |-> FALSE,
                     fetches |-> 0, res |-> Ok(hit.val)]
               ELSE [pc |-> "fetch", country |-> countryCode]]
    /\ last' = [op |-> "BeginGetPPP", caller |-> p]
    /\ prev' = Summary(last)
    /\ UNCHANGED <<cacheEnabled, cacheDuration, cache, pricingTiers, now, file>>

\* the provider answers the caller: on an error the caller returns it
FetchPPP(p) ==
    /\ inflight[p].pc = "fetch"
    /\ \E ppp \in WBResults(inflight[p].country, now) :
          inflight' = [inflight EXCEPT ![p] =
              IF ppp.ok
              THEN [pc |-> "store", country |-> inflight[p].country, got |-> ppp]
              ELSE [pc |-> "done", country |-> inflight[p].country, missed |-> TRUE,
                    fetches |-> 1, got |-> ppp, res |-> ppp]]
    /\ last' = [op |-> "FetchPPP", caller |-> p]
    /\ prev' = Summary(last)
    /\ UNCHANGED <<cacheEnabled, cacheDuration, cache, pricingTiers, now, file>>

\* the caller stores what it fetched and returns it
StorePPP(p) ==
    /\ inflight[p].pc = "store"
    /\ cache' = StoreFetched(cache, cacheEnabled, cacheDuration, inflight[p].country,
                             inflight[p].got.val, now)
    /\ inflight' = [inflight EXCEPT ![p] =
           [pc |-> "done", country |-> inflight[p].country, missed |-> TRUE,
            fetches |-> 1, got |-> inflight[p].got, res |-> inflight[p].got]]
    /\ last' = [op |-> "StorePPP", caller |-> p, val |-> inflight[p].got.val]
    /\ prev' = Summary(last)
    /\ UNCHANGED <<cacheEnabled, cacheDuration, pricingTiers, now, file>>

----------------------------------------------------------------------------
(* NewClient with a list of options *)

\* an Option applied to the client under construction, WithoutCache keeping
\* the cache instance
ApplyOptionKeepingCache(client, opt) ==
    IF opt.name = "WithCache"
    THEN [cacheEnabled |-> TRUE, cacheDuration |-> opt.duration,
          cache |-> NewCache(opt.duration)]
    ELSE IF opt.name = "WithoutCache"
    THEN [client EXCEPT !.cacheEnabled = FALSE]
    ELSE client

\* an Option applied to the client under construction: WithCache,
\* WithoutCache, or an option that touches no field of the cache
\* (WithTimeout, WithWorldBankURL, WithCurrencyURL)
ApplyOption(client, opt) ==
    IF opt.name = "WithCache"
    THEN [cacheEnabled |-> TRUE, cacheDuration |-> opt.duration,
          cache |-> NewCache(opt.duration)]
    ELSE IF opt.name = "WithoutCache"
    THEN [client EXCEPT !.cacheEnabled = FALSE, !.cache = NilCache]
    ELSE client

\* the loop of NewClient over the options from the i-th on
RECURSIVE ApplyOptions(_, _, _)
ApplyOptions(client, opts, i) ==
    IF i > Len(opts) THEN client
    ELSE ApplyOptions(ApplyOption(client, opts[i]), opts, i + 1)

\* NewClient(opts...)
NewClientWith(opts) == ApplyOptions(NewClient([name |-> "none"]), opts, 1)

\* the options of the model, and the lists of at most MaxOptions of them
Options ==
    {[name |-> "WithoutCache"], [name |-> "WithTimeout"],
     [name |-> "WithCache", duration |-> ShortDuration],
     [name |-> "WithCache", duration |-> 0]}

OptionLists == UNION {[1..n -> Options] : n \in 0..MaxOptions}

CallNewClient ==
    /\ IsPending("NewClient")
    /\ \E client \in {NewClientWith(last.arg)} :
          /\ cacheEnabled' = client.cacheEnabled
          /\ cacheDuration' = client.cacheDuration
          /\ cache' = client.cache
    /\ last' = [op |-> "NewClient", opts |-> last.arg]
    /\ prev' = Summary(last)
    /\ UNCHANGED <<pricingTiers, now, file, inflight>>

----------------------------------------------------------------------------
(* Operations of the Cache, called on the cache of the default client *)

\* cache.NoExpiration
NoExpiration == -1

\* the expirations the entries are stored with
Expirations == {ShortDuration * Hour, DefaultExpiration, NoExpiration}

\* the PPP data stored: two values for the country
StoredPPP(countryCode) ==
    {SamplePPP(countryCode), [SamplePPP(countryCode) EXCEPT !.Factor = Dec(6, -1)]}

SetPPP(countryCode, data, expiration) ==
    /\ cache' = CacheSetPPP(cache, countryCode, data, expiration, now)
    /\ last' = [op |-> "SetPPP", country |-> countryCode, data |-> data,
                expiration |-> expiration, at |-> now]
    /\ prev' = Summary(last)
    /\ UNCHANGED <<cacheEnabled, cacheDuration, pricingTiers, now, file, inflight>>

SetExchangeRate(from, to, rate, expiration) ==
    /\ cache' = CacheSetExchangeRate(cache, from, to, rate, expiration, now)
    /\ last' = [op |-> "SetExchangeRate", from |-> from, to |-> to, rate |-> rate,
                expiration |-> expiration, at |-> now]
    /\ prev' = Summary(last)
    /\ UNCHANGED <<cacheEnabled, cacheDuration, pricingTiers, now, file, inflight>>

SetCountries(countries, expiration) ==
    /\ cache' = CacheSetCountries(cache, countries, expiration, now)
    /\ last' = [op |-> "SetCountries"]
    /\ prev' = Summary(last)
    /\ UNCHANGED <<cacheEnabled, cacheDuration, pricingTiers, now, file, inflight>>

SetIndicators(search, indicators, expiration) ==
    /\ cache' = CacheSetIndicators(cache, search, indicators, expiration, now)
    /\ last' = [op |-> "SetIndicators"]
    /\ prev' = Summary(last)
    /\ UNCHANGED <<cacheEnabled, cacheDuration, pricingTiers, now, file, inflight>>

----------------------------------------------------------------------------
(* The datasets of the cache and their keys *)

\* the identifying fields of the model: the strings of at most MaxIdLen
\* characters out of a letter and the colon
Identifiers == UNION {[1..n -> {"A", ":"}] : n \in 0..MaxIdLen}

\* the logical datasets: the PPP of a country, the rate of a pair of
\* currencies, the list of countries, the indicators of a search
Datasets ==
    {[ns |-> "ppp", countryCode |-> c] : c \in Identifiers}
        \cup {[ns |-> "rate", from |-> f, to |-> t] : f, t \in Identifiers}
        \cup {[ns |-> "countries"]}
        \cup {[ns |-> "indicators", search |-> s] : s \in Identifiers}

\* the key a dataset is cached under
DatasetKey(d) ==
    CASE d.ns = "ppp" -> CacheKeyPPP(d.countryCode)
      [] d.ns = "rate" -> CacheKeyExchangeRate(d.from, d.to)
      [] d.ns = "countries" -> CacheKeyCountries
      [] OTHER -> CacheKeyIndicators(d.search)

\* the Set of the dataset, with data that names it, and its Get
DatasetSet(c, d, t) ==
    CASE d.ns = "ppp" ->
             CacheSetPPP(c, d.countryCode, SamplePPP(d.countryCode), DefaultExpiration, t)
      [] d.ns = "rate" ->
             CacheSetExchangeRate(c, d.from, d.to, SampleRate(d.from, d.to),
                                  DefaultExpiration, t)
      [] d.ns = "countries" -> CacheSetCountries(c, SampleCountries, DefaultExpiration, t)
      [] OTHER ->
             CacheSetIndicators(c, d.search, <<[ID |-> d.search, Name |-> d.search]>>,
                                DefaultExpiration, t)

DatasetGet(c, d, t) ==
    CASE d.ns = "ppp" -> CacheGetPPP(c, d.countryCode, t)
      [] d.ns = "rate" -> CacheGetExchangeRate(c, d.from, d.to, t)
      [] d.ns = "countries" -> CacheGetCountries(c, t)
      [] OTHER -> CacheGetIndicators(c, d.search, t)

\* the first dataset is stored and read, the second is stored, and the
\* first is read again
CallSetOther ==
    /\ IsPending("SetOther")
    /\ \E c1 \in {DatasetSet(cache, last.arg.a, now)} :
       \E c2 \in {DatasetSet(c1, last.arg.b, now)} :
          /\ cache' = c2
          /\ last' = [op |-> "SetOther", a |-> last.arg.a, b |-> last.arg.b,
                      keyA |-> DatasetKey(last.arg.a),
                      keyB |-> DatasetKey(last.arg.b),
                      before |-> DatasetGet(c1, last.arg.a, now),
                      after |-> DatasetGet(c2, last.arg.a, now)]
    /\ prev' = Summary(last)
    /\ UNCHANGED <<cacheEnabled, cacheDuration, pricingTiers, now, file, inflight>>

----------------------------------------------------------------------------
(* The specifications.  The pricing and comparison ones run at one        *)
(* instant, with the default client and the one without a cache.          *)

InitPricing == Init /\ cacheDuration = DefaultCacheHours

NextPricing ==
    \/ \E a \in RecommendAmounts : \E k \in {TR, ZZ} : Recommend(a, USD, k)
    \/ ClearCache

SpecPricing == InitPricing /\ [][NextPricing]_vars

NextStrategy ==
    \/ \E tiers \in TierLists : SetPricingTiers(tiers)
    \/ \E a \in Amounts : \E f \in PricingCurrencies : \E k \in PricingCountries :
          RecommendWithStrategy(a, f, k)
    \/ \E a \in Amounts : \E f \in PricingCurrencies : \E k \in PricingCountries :
          RecommendSaaS(a, f, k)

SpecStrategy == InitPricing /\ [][NextStrategy]_vars

NextTiers ==
    \/ \E tiers \in TierLists : SetPricingTiers(tiers)
    \/ \E f \in TierFactors : GetTierForPPP(f)

SpecTiers == InitPricing /\ [][NextTiers]_vars

NextBasket ==
    \/ \E items \in Baskets : \E f \in PricingCurrencies : \E k \in PricingCountries :
          CalculateMarketBasket(items, f, k)
    \/ ClearCache

SpecBasket == InitPricing /\ [][NextBasket]_vars

NextAnalytics ==
    \/ \E c \in {TR, BR} : GetPPP(c)
    \/ \E c \in {TR, BR} : AnalyzePPPTrend(c, 1, SeriesLen)

SpecAnalytics == InitPricing /\ [][NextAnalytics]_vars

NextCompare == \E codes \in CodeLists : ComparePPP(codes)

SpecCompare == InitPricing /\ [][NextCompare]_vars

NextBatch ==
    \/ \E a \in Amounts : \E f \in PricingCurrencies : \E codes \in BatchLists :
          BatchRecommend(a, f, codes)
    \/ ClearCache

SpecBatch == InitPricing /\ [][NextBatch]_vars

\* the default client, about to make the call
InitCall(calls) ==
    /\ cacheEnabled = NewClient([name |-> "none"]).cacheEnabled
    /\ cacheDuration = NewClient([name |-> "none"]).cacheDuration
    /\ cache = NewClient([name |-> "none"]).cache
    /\ pricingTiers = StandardPricingTiers
    /\ now = 0
    /\ file = NoFile
    /\ inflight = NoCallers
    /\ last \in calls
    /\ prev = [op |-> "other"]

InitValidation ==
    InitCall({Pending("ValidateAmount", a) : a \in AmountInputs}
                 \cup {Pending("ValidateCountryCode", code) : code \in CodeInputs}
                 \cup {Pending("ValidateCurrencyCode", code) : code \in CodeInputs})

NextValidation ==
    \/ CallValidateAmount
    \/ CallValidateCountryCode
    \/ CallValidateCurrencyCode

SpecValidation == InitValidation /\ [][NextValidation]_vars

InitRounding ==
    InitCall({Pending("RoundPrice", [price |-> a, currency |-> c]) :
                 a \in PriceInputs, c \in CurrencyInputs})

NextRounding == CallRoundPrice

SpecRounding == InitRounding /\ [][NextRounding]_vars

InitFormat ==
    InitCall({Pending("FormatPrice", [price |-> a, currency |-> c]) :
                 a \in FormatPrices, c \in FormatCurrencies})

NextFormat == CallFormatPrice

SpecFormat == InitFormat /\ [][NextFormat]_vars

InitCache == InitCall({[op |-> "NewClient"]})

NextCache ==
    \/ Tick
    \/ ClearCache
    \/ \E data \in StoredPPP(TR) : \E expiration \in Expirations :
          SetPPP(TR, data, expiration)
    \/ \E expiration \in Expirations \ {NoExpiration} :
          SetExchangeRate(USD, TRY, SampleRate(USD, TRY), expiration)
    \/ SetCountries(SampleCountries, DefaultExpiration)
    \/ SetIndicators(<<>>, SampleIndicators, NoExpiration)

SpecCache == InitCache /\ [][NextCache]_vars

InitConstruction == InitCall({Pending("NewClient", opts) : opts \in OptionLists})

NextConstruction == CallNewClient

SpecConstruction == InitConstruction /\ [][NextConstruction]_vars

NextFetch ==
    \/ Tick
    \/ GetPPP(TR)
    \/ GetExchangeRate(USD, TRY)
    \/ ClearCache

SpecFetch == Init /\ [][NextFetch]_vars

NextRates ==
    \/ Tick
    \/ GetExchangeRate(USD, TRY)
    \/ ExportCache
    \/ ImportCache
    \/ ClearCache

SpecRates == Init /\ [][NextRates]_vars

NextConcurrent ==
    \/ \E p \in Callers : BeginGetPPP(p, TR)
    \/ \E p \in Callers : FetchPPP(p)
    \/ \E p \in Callers : StorePPP(p)

SpecConcurrent == Init /\ [][NextConcurrent]_vars

InitKeys ==
    InitCall({Pending("SetOther", [a |-> a, b |-> b]) : a, b \in Datasets})

NextKeys == CallSetOther

SpecKeys == InitKeys /\ [][NextKeys]_vars

NextTrend == AnalyzePPPTrendOver(TrendResponses, TR, 0, SeriesLen)

SpecTrend == InitPricing /\ [][NextTrend]_vars

InitSnapshot ==
    /\ cacheEnabled = TRUE
    /\ cacheDuration = DefaultCacheHours
    /\ cache \in OriginalCaches
    /\ pricingTiers = StandardPricingTiers
    /\ now = 0
    /\ file = NoFile
    /\ inflight = NoCallers
    /\ last = [op |-> "NewClient"]
    /\ prev = [op |-> "other"]

NextSnapshot ==
    \/ Tick
    \/ ClearCache
    \/ ExportCache
    \/ ImportCache
    \/ \E body \in OtherBodies : WriteFile(body)

SpecSnapshot == InitSnapshot /\ [][NextSnapshot]_vars

Next ==
    \/ Tick
    \/ \E c \in {TR, BR} : GetPPP(c)
    \/ ClearCache

Spec == Init /\ [][Next]_vars

----------------------------------------------------------------------------
(* Properties of the cache-aside PPP read *)

\* the data point at i holds an observation: a value that is present and > 0
IsObservation(points, i) == ~points[i].null /\ RGt(points[i].x, RInt(0))

HasObservation(points) == \E i \in 1..Len(points) : IsObservation(points, i)

\* the observation of the latest year
MostRecentObservation(points) ==
    CHOOSE i \in 1..Len(points) :
        /\ IsObservation(points, i)
        /\ \A j \in 1..Len(points) : IsObservation(points, j) => YearOf(j) <= YearOf(i)

\* last and prev are two consecutive GetPPP calls for one country, the first a
\* cache miss whose fetch succeeded, the second within the TTL of what it stored
TwoCallsWithinTTL ==
    /\ cacheEnabled
    /\ last.op = "GetPPP" /\ prev.op = "GetPPP"
    /\ last.country = prev.country
    /\ prev.fetches = 1 /\ prev.res.ok
    /\ last.at - prev.at <= cacheDuration

\* C1: with caching enabled, of two consecutive GetPPP calls for one country
\* within the TTL window the second returns the very observation the first
\* returned, and the two calls make exactly one provider fetch between them.
C1_SecondCallServedFromCache ==
    TwoCallsWithinTTL =>
        /\ last.res = prev.res
        /\ prev.fetches + last.fetches = 1

\* two such calls, time having passed between them under the short TTL
C1_Witness ==
    /\ TwoCallsWithinTTL
    /\ cacheDuration = ShortDuration
    /\ last.at > prev.at
    /\ last.fetches = 0

\* C4: a GetPPP call whose fetch brings a series with at least one present,
\* strictly positive value returns the observation of the most recent such
\* year, its factor > 0; and every observation GetPPP returns, fetched or
\* cached, has a factor > 0.
C4_MostRecentPositiveObservation ==
    last.op = "GetPPP" =>
        /\ last.res.ok => RGt(last.res.val.Factor, RInt(0))
        /\ (last.resp.kind = "data" /\ HasObservation(last.resp.points)) =>
              LET i == MostRecentObservation(last.resp.points)
              IN  /\ last.res.ok
                  /\ last.res.val.Factor = last.resp.points[i].x
                  /\ last.res.val.Year = YearOf(i)

\* a fetched series whose newest point is null or zero and an older one positive
C4_Witness ==
    /\ last.op = "GetPPP"
    /\ last.resp.kind = "data"
    /\ ~IsObservation(last.resp.points, 1)
    /\ HasObservation(last.resp.points)
    /\ last.res.ok

----------------------------------------------------------------------------
(* Properties of Client.Recommend *)

\* C2: a Recommend call that succeeds read the PPP data of toCountry and the
\* rate from fromCurrency to the currency of toCountry (with a cache, both
\* are now cached under the keys of that country and that pair), and returns
\* recommended = amount * factor and
\* discount = (market - recommended) / market * 100 with
\* market = amount * rate; and the call succeeds whenever both reads do, a
\* factor above the rate (a negative discount) included.
C2_RecommendedPriceAndDiscount ==
    last.op = "Recommend" =>
        /\ (last.ppp.ok /\ last.rate.ok) => last.res.ok
        /\ last.res.ok =>
              LET toCurrency == getCurrencyForCountry(last.args.toCountry)
                  market == RMul(last.args.price, last.rate.val.Rate)
                  recommended == RMul(last.args.price, last.ppp.val.Factor)
              IN  /\ last.ppp.ok /\ last.rate.ok
                  /\ last.rate.val.From = ToUpper(last.args.fromCurrency)
                  /\ last.rate.val.To = toCurrency
                  /\ cacheEnabled =>
                        /\ CacheGetPPP(cache, last.args.toCountry, now)
                             = [found |-> TRUE, val |-> last.ppp.val]
                        /\ CacheGetExchangeRate(cache, last.args.fromCurrency,
                                                toCurrency, now)
                             = [found |-> TRUE, val |-> last.rate.val]
                  /\ last.res.val.OriginalPrice = last.args.price
                  /\ last.res.val.OriginalCurrency = last.args.fromCurrency
                  /\ last.res.val.TargetCurrency = toCurrency
                  /\ last.res.val.PPPFactor = last.ppp.val.Factor
                  /\ last.res.val.ExchangeRate = last.rate.val.Rate
                  /\ last.res.val.RecommendedPrice = recommended
                  /\ last.res.val.DiscountPercentage =
                        RMul(RDiv(RSub(market, recommended), market), RInt(100))

\* a recommendation for TR whose factor is above the rate
C2_Witness ==
    /\ last.op = "Recommend"
    /\ last.res.ok
    /\ last.args.toCountry = TR
    /\ last.res.val.TargetCurrency = TRY
    /\ RGt(last.res.val.PPPFactor, last.res.val.ExchangeRate)
    /\ RLt(last.res.val.DiscountPercentage, RInt(0))

\* last and prev are two consecutive Recommend calls that succeeded, for one
\* currency and country and under one factor and rate, the second for twice
\* the amount of the first
DoubledRecommend ==
    /\ last.op = "Recommend" /\ prev.op = "Recommend"
    /\ last.res.ok /\ prev.res.ok
    /\ last.args.fromCurrency = prev.args.fromCurrency
    /\ last.args.toCountry = prev.args.toCountry
    /\ last.args.price = RMul(RInt(2), prev.args.price)
    /\ last.res.val.PPPFactor = prev.res.val.PPPFactor
    /\ last.res.val.ExchangeRate = prev.res.val.ExchangeRate

\* C3: for one factor and rate, the recommended price for twice an amount is
\* twice the recommended price for the amount.
C3_RecommendLinearInAmount ==
    DoubledRecommend =>
        last.res.val.RecommendedPrice = RMul(RInt(2), prev.res.val.RecommendedPrice)

\* two such calls, the second served from what the first left in the cache
C3_Witness ==
    /\ DoubledRecommend
    /\ last.pppFetches = 0 /\ last.rateFetches = 0

----------------------------------------------------------------------------
(* Properties of the failures for missing data *)

\* the response carries data points, none of them an observation
NoObservation(resp) == resp.kind = "data" /\ ~HasObservation(resp.points)

\* C5: a GetPPP call whose fetched window holds no observation, and an
\* AnalyzePPPTrend call whose historical fetch yields no data, fail with an
\* error for which IsNoDataError is true.
C5_NoDataFailureCarriesCode ==
    ((last.op = "GetPPP" \/ last.op = "AnalyzePPPTrend") /\ NoObservation(last.resp)) =>
        /\ ~last.res.ok
        /\ IsNoDataError(last.res.err)

----------------------------------------------------------------------------
(* Properties of Client.ComparePPP *)

\* the positions of countryCodes whose read succeeded
Succeeded(call) == {i \in 1..Len(call.countryCodes) : call.got[i].ok}

\* C6: ComparePPP always succeeds; its result has one entry for each position
\* of the input whose read succeeded and none for the others, each with the
\* factor that was read; the entries are in non-decreasing order of factor
\* and ranked 1..n in that order.
C6_ComparisonsOfSuccessfulReadsSortedAndRanked ==
    last.op = "ComparePPP" =>
        /\ last.res.ok
        /\ LET out == last.res.val
           IN  /\ Len(out) = Cardinality(Succeeded(last))
               /\ \A code \in {TR, BR} : \A f \in {FactorHistory[y] : y \in 1..SeriesLen} :
                     Cardinality({k \in 1..Len(out) :
                                     out[k].Country = code /\ out[k].Factor = f})
                       = Cardinality({i \in Succeeded(last) :
                                         /\ last.countryCodes[i] = code
                                         /\ last.got[i].val.Factor = f})
               /\ \A k \in 1..(Len(out) - 1) : RLe(out[k].Factor, out[k + 1].Factor)
               /\ \A k \in 1..Len(out) : out[k].Rank = k

\* three codes, the read of the last one failing and the two others
\* succeeding with the larger factor first
C6_Witness ==
    /\ last.op = "ComparePPP"
    /\ Len(last.countryCodes) = 3
    /\ last.got[1].ok /\ last.got[2].ok /\ ~last.got[3].ok
    /\ RGt(last.got[1].val.Factor, last.got[2].val.Factor)
    /\ Len(last.res.val) = 2
    /\ last.res.val[1].Country = last.countryCodes[2]
    /\ last.res.val[1].Rank = 1 /\ last.res.val[2].Rank = 2

----------------------------------------------------------------------------
(* Properties of the tiered pricing *)

\* lower <= pppFactor < upper
InHalfOpenInterval(tier, pppFactor) ==
    /\ RLe(tier.MinPPPFactor, pppFactor)
    /\ RLt(pppFactor, tier.MaxPPPFactor)

\* C7: the discount RecommendWithStrategy returns is that of the first tier
\* of the list whose half-open interval [lower, upper) holds the factor: a
\* factor equal to a tier's lower bound has that tier's discount unless an
\* earlier tier holds it too, and a tier whose upper bound is the factor
\* does not hold it.
C7_FirstHalfOpenTierWins ==
    (last.op = "RecommendWithStrategy" /\ last.res.ok) =>
        \A i \in 1..Len(pricingTiers) :
            (/\ InHalfOpenInterval(pricingTiers[i], last.res.val.PPPFactor)
             /\ \A j \in 1..(i - 1) :
                   ~InHalfOpenInterval(pricingTiers[j], last.res.val.PPPFactor))
                => last.res.val.DiscountPercentage = pricingTiers[i].DiscountPercentage

\* the standard tiers and a factor of exactly 0.3: the upper bound of
\* "Premium" and the lower bound of "Standard", whose discount is returned
C7_Witness ==
    /\ last.op = "RecommendWithStrategy"
    /\ last.res.ok
    /\ pricingTiers = StandardPricingTiers
    /\ last.res.val.PPPFactor = Dec(3, -1)
    /\ pricingTiers[1].MaxPPPFactor = last.res.val.PPPFactor
    /\ pricingTiers[2].MinPPPFactor = last.res.val.PPPFactor
    /\ last.res.val.DiscountPercentage = pricingTiers[2].DiscountPercentage

\* what Client.Recommend returned to the RecommendWithStrategy call last
BaseRecommendation(call) ==
    PriceRecommendation(call.args.price, call.args.fromCurrency,
                        getCurrencyForCountry(call.args.toCountry),
                        call.ppp.val, call.rate.val)

\* C8: a RecommendWithStrategy call that succeeds returns, when a tier holds
\* the factor, the tier's discount and amount * (1 - discount / 100) as the
\* recommended price, the other fields as Client.Recommend returned them;
\* and when no tier holds the factor, what Client.Recommend returned.
C8_TierOverridesElseBaseStands ==
    (last.op = "RecommendWithStrategy" /\ last.res.ok) =>
        LET base == BaseRecommendation(last)
            t == getTierForPPP(pricingTiers, base.PPPFactor)
        IN  IF t.nil THEN last.res.val = base
            ELSE last.res.val =
                    [base EXCEPT
                       !.DiscountPercentage = t.tier.DiscountPercentage,
                       !.RecommendedPrice =
                           RMul(last.args.price,
                                RSub(RInt(1),
                                     RDiv(t.tier.DiscountPercentage, RInt(100))))]

\* a call under a tier list none of whose tiers holds the factor
C8_Witness ==
    /\ last.op = "RecommendWithStrategy"
    /\ last.res.ok
    /\ getTierForPPP(pricingTiers, last.res.val.PPPFactor).nil
    /\ last.res.val = BaseRecommendation(last)

\* C9: with the standard tiers, the Monthly price RecommendSaaS returns is
\* the monthly amount times the PPP factor, in the target country's currency.
C9_MonthlyIsAmountTimesFactor ==
    (last.op = "RecommendSaaS" /\ last.res.ok /\ pricingTiers = StandardPricingTiers) =>
        /\ last.res.val.Monthly = RMul(last.args.price, last.ppp.val.Factor)
        /\ last.res.val.Currency = getCurrencyForCountry(last.args.toCountry)

----------------------------------------------------------------------------
(* Properties of CalculateMarketBasket *)

\* C10: a CalculateMarketBasket call makes at most one PPP lookup and at
\* most one rate lookup, whatever the number of items: exactly one PPP
\* lookup once the inputs pass validation, exactly one rate lookup once the
\* PPP lookup has succeeded, and so exactly one of each when the call
\* succeeds; and no more provider fetches than lookups.
C10_OneLookupOfEachKind ==
    last.op = "CalculateMarketBasket" =>
        /\ last.pppLookups <= 1 /\ last.rateLookups <= 1
        /\ last.pppFetches <= last.pppLookups
        /\ last.rateFetches <= last.rateLookups
        /\ (/\ ValidateCurrencyCode(last.args.fromCurrency).ok
            /\ ValidateCountryCode(last.args.toCountry).ok
            /\ DOMAIN last.args.items # {}) => last.pppLookups = 1
        /\ last.ppp.ok => last.rateLookups = 1
        /\ last.res.ok => (last.pppLookups = 1 /\ last.rateLookups = 1)

\* a basket of several items priced with one lookup of each kind
C10_Witness ==
    /\ last.op = "CalculateMarketBasket"
    /\ last.res.ok
    /\ Cardinality(DOMAIN last.args.items) > 1
    /\ last.pppLookups = 1 /\ last.rateLookups = 1

\* the amounts of the basket that ValidateAmount rejects
InvalidItems(items) == {k \in DOMAIN items : ~ValidateAmount(items[k]).ok}

\* the error is, or wraps, a PPPError with code InvalidInput
IsInvalidInputError(err) == err.pppError /\ err.code = ErrCodeInvalidInput

\* C11: CalculateMarketBasket is all-or-nothing: if any item amount is
\* invalid the call returns an InvalidInput error and no result map, never
\* a partial map of the valid items.
C11_InvalidItemFailsBasketWithInvalidInput ==
    (last.op = "CalculateMarketBasket" /\ InvalidItems(last.args.items) # {}) =>
        /\ ~last.res.ok
        /\ IsInvalidInputError(last.res.err)

----------------------------------------------------------------------------
(* Properties of the validation order *)

\* the operations that validate their inputs
ValidatingOps ==
    {"RecommendPrice", "QuickRecommend", "GetFactor", "GetRate", "BatchRecommend",
     "RecommendWithStrategy", "CalculateMarketBasket"}

\* C13: validation precedes I/O: whenever one of the validating operations
\* fails because an input is invalid (amount, item amount, currency code,
\* country code, empty list), no provider call was issued during the call.
C13_NoProviderCallBeforeInvalidInput ==
    (/\ last.op \in ValidatingOps
     /\ ~last.res.ok
     /\ IsInvalidInputError(last.res.err)) =>
        (last.pppFetches = 0 /\ last.rateFetches = 0)

----------------------------------------------------------------------------
(* Properties of BatchRecommend *)

\* the inputs of the BatchRecommend call pass its validation
BatchInputsValid(args) ==
    /\ ValidateAmount(args.price).ok
    /\ ValidateCurrencyCode(args.fromCurrency).ok
    /\ Len(args.toCountries) > 0
    /\ FirstInvalidCountry(args.toCountries, 1) = 0

Requested(args) == {args.toCountries[i] : i \in 1..Len(args.toCountries)}

\* the last position at which the country was requested
LastRequest(args, country) ==
    CHOOSE i \in 1..Len(args.toCountries) :
        /\ args.toCountries[i] = country
        /\ \A j \in (i + 1)..Len(args.toCountries) : args.toCountries[j] # country

\* the recommendation for the country failed (for a country requested more
\* than once, the recommendation made last)
FailedFor(call, country) == ~call.calls[LastRequest(call.args, country)].ok

\* C12: BatchRecommend with valid inputs returns a hard error if and only
\* if the recommendation failed for every requested country; otherwise it
\* returns a map with an entry for every requested country: the recommended
\* price (the amount times the PPP factor) for the countries that succeeded
\* and the sentinel 0 for those that failed.
C12_HardErrorIffEveryCountryFailed ==
    (last.op = "BatchRecommend" /\ BatchInputsValid(last.args)) =>
        /\ Len(last.calls) = Len(last.args.toCountries)
        /\ ~last.res.ok <=> \A k \in Requested(last.args) : FailedFor(last, k)
        /\ ~last.res.ok => last.res.err.code = ErrCodeAPIError
        /\ last.res.ok =>
              /\ DOMAIN last.res.val = Requested(last.args)
              /\ \A k \in Requested(last.args) :
                    LET rec == last.calls[LastRequest(last.args, k)]
                    IN  IF rec.ok
                        THEN /\ last.res.val[k] = rec.val.RecommendedPrice
                             /\ last.res.val[k] = RMul(last.args.price, rec.val.PPPFactor)
                             /\ RGt(last.res.val[k], RInt(0))
                        ELSE last.res.val[k] = RInt(0)

\* a batch over two countries of which one failed and one succeeded
C12_Witness ==
    /\ last.op = "BatchRecommend"
    /\ BatchInputsValid(last.args)
    /\ last.res.ok
    /\ \E k, m \in Requested(last.args) :
          /\ FailedFor(last, k) /\ last.res.val[k] = RInt(0)
          /\ ~FailedFor(last, m) /\ RGt(last.res.val[m], RInt(0))

----------------------------------------------------------------------------
(* Properties of the validators *)

\* C14: ValidateAmount accepts an amount if and only if 0 < amount <= 1e15;
\* every rejection is an InvalidInput error, and zero and negative amounts
\* are rejected with messages different from the "too large" message.
C14_AmountAcceptedIffInRange ==
    last.op = "ValidateAmount" =>
        /\ last.res.ok <=> (RLt(RInt(0), last.amount) /\ RLe(last.amount, Dec(1, 15)))
        /\ ~last.res.ok => IsInvalidInputError(last.res.err)
        /\ (~last.res.ok /\ RLe(last.amount, RInt(0))) =>
              last.res.err.message # "amount is too large"

\* the capital letters of ASCII
AsciiCapitals == {UpperLetters[k] : k \in 1..26}

\* C15: ValidateCountryCode accepts a string if and only if it is exactly 2
\* uppercase ASCII letters, ValidateCurrencyCode if and only if it is
\* exactly 3; every other code (empty, shorter, longer, lowercase, with a
\* digit) is rejected with an InvalidInput error.
C15_CodeAcceptedIffCapitalsOfTheLength ==
    /\ last.op = "ValidateCountryCode" =>
          /\ last.res.ok <=> (/\ Len(last.code) = 2
                              /\ \A i \in 1..Len(last.code) : last.code[i] \in AsciiCapitals)
          /\ ~last.res.ok => IsInvalidInputError(last.res.err)
    /\ last.op = "ValidateCurrencyCode" =>
          /\ last.res.ok <=> (/\ Len(last.code) = 3
                              /\ \A i \in 1..Len(last.code) : last.code[i] \in AsciiCapitals)
          /\ ~last.res.ok => IsInvalidInputError(last.res.err)

\* a code of the right length in bytes is rejected for a character that is
\* no capital letter
C15_Witness ==
    /\ last.op = "ValidateCurrencyCode"
    /\ ByteLen(last.code) = 3
    /\ ~last.res.ok
    /\ last.res.err.message = "currency code must be uppercase letters"

----------------------------------------------------------------------------
(* Properties of RoundPrice *)

\* the currencies that are rounded to whole units
TypicallyNoDecimals ==
    {<<"J", "P", "Y">>, <<"K", "R", "W">>, <<"I", "D", "R">>, <<"V", "N", "D">>,
     <<"C", "L", "P">>, <<"P", "Y", "G">>, <<"R", "W", "F">>, <<"X", "A", "F">>,
     <<"X", "O", "F">>, <<"X", "P", "F">>}

\* the step of the prices of a currency: 1, or 0.01
RoundingStep(currency) ==
    IF currency \in TypicallyNoDecimals THEN RInt(1) ELSE Dec(1, -2)

RAbs(a) == [a EXCEPT !.n = Abs(a.n)]

\* the number is an integer
IsWhole(a) == a.d = 1 /\ a.e >= 0

\* C20: RoundPrice rounds to the nearest integer for the currencies of the
\* no-decimals set and to 2 decimal places for every other currency, halves
\* away from zero; applying it twice gives the same as applying it once.
C20_RoundsToNearestStepAndIsIdempotent ==
    last.op = "RoundPrice" =>
        LET step == RoundingStep(last.currency)
            off == RAbs(RSub(last.res, last.price))
        IN  /\ IsWhole(RDiv(last.res, step))
            /\ RLe(RMul(off, RInt(2)), step)
            /\ RMul(off, RInt(2)) = step => RGt(RAbs(last.res), RAbs(last.price))
            /\ last.again = last.res

\* a price half-way between two cents goes away from zero, and a price
\* half-way between two units of a currency without decimals does too
C20_Witness ==
    /\ last.op = "RoundPrice"
    /\ \/ (last.currency = USD /\ last.price = Dec(-1005, -3)
              /\ last.res = Dec(-101, -2))
       \/ (last.currency = <<"J", "P", "Y">> /\ last.price = Dec(25, -1)
              /\ last.res = RInt(3))

----------------------------------------------------------------------------
(* Properties of AnalyzePPPTrend *)

\* the positions of the response's data points that are observations
Observations(resp) == {i \in 1..Len(resp.points) : IsObservation(resp.points, i)}

\* the newest observation comes first in the response, the oldest last
Newest(resp) == resp.points[CHOOSE i \in Observations(resp) :
                                \A j \in Observations(resp) : i <= j].x
Oldest(resp) == resp.points[CHOOSE i \in Observations(resp) :
                                \A j \in Observations(resp) : i >= j].x

\* (newest - oldest) / oldest * 100
PercentChange(resp) ==
    RMul(RDiv(RSub(Newest(resp), Oldest(resp)), Oldest(resp)), RInt(100))

\* C18: AnalyzePPPTrend with at least two data points classifies by
\* change = (newest - oldest) / oldest * 100, newest the first and oldest
\* the last element of the newest-first sequence: increasing iff
\* change > 10, decreasing iff change < -10, and stable otherwise, so a
\* change of exactly 10 or -10 is stable.
C18_TrendByPercentChange ==
    (/\ last.op = "AnalyzePPPTrend"
     /\ last.resp.kind = "data"
     /\ Cardinality(Observations(last.resp)) >= 2) =>
        /\ last.res.ok
        /\ last.res.val.Trend = "increasing" <=> RGt(PercentChange(last.resp), RInt(10))
        /\ last.res.val.Trend = "decreasing" <=> RLt(PercentChange(last.resp), RInt(-10))
        /\ last.res.val.Trend \in {"increasing", "decreasing", "stable"}

\* a history whose change is exactly 10 or -10 percent, found stable
C18_Witness ==
    /\ last.op = "AnalyzePPPTrend"
    /\ last.resp.kind = "data"
    /\ Cardinality(Observations(last.resp)) >= 2
    /\ PercentChange(last.resp) \in {RInt(10), RInt(-10)}
    /\ last.res.ok
    /\ last.res.val.Trend = "stable"

\* C19: AnalyzePPPTrend over a sequence with exactly one data point
\* succeeds and returns volatility 0, trend "stable", DataPoints 1 and an
\* Average equal to that point's factor.
C19_SinglePointIsStableWithoutVolatility ==
    (/\ last.op = "AnalyzePPPTrend"
     /\ last.resp.kind = "data"
     /\ Cardinality(Observations(last.resp)) = 1) =>
        /\ last.res.ok
        /\ last.res.val.Volatility = RInt(0)
        /\ last.res.val.Trend = "stable"
        /\ last.res.val.DataPoints = 1
        /\ last.res.val.Average = Newest(last.resp)

\* a history with one observation among nulls has been analysed
C19_Witness ==
    /\ last.op = "AnalyzePPPTrend"
    /\ last.resp.kind = "data"
    /\ Cardinality(Observations(last.resp)) = 1
    /\ Len(last.resp.points) > 1
    /\ last.res.ok
    /\ last.res.val.DataPoints = 1

----------------------------------------------------------------------------
(* Export and import of the cache: C16, C17 *)

\* the last operation imported, without error, a file that ExportToFile
\* wrote into a cache that held nothing, and no time has passed since
ImportedExportIntoFresh ==
    /\ last.op = "ImportCache"
    /\ last.res.ok
    /\ DOMAIN last.before.items = {}
    /\ file.exists
    /\ file.exported
    /\ now = last.at

\* the country codes and the searches the entries of the model are under
PPPCodes == {TR, <<>>}
Searches == {<<>>}

\* C16: after a cache is exported with ExportToFile and the file is imported
\* into a fresh cache with ImportFromFile, every Get (PPP, exchange rate,
\* countries, indicators) that found a value in the original cache at the
\* time of the export finds an equal value in the fresh cache.
C16_RoundTripReproducesEveryLiveGet ==
    ImportedExportIntoFresh =>
        /\ \A code \in PPPCodes :
              CacheGetPPP(file.source, code, file.at).found
                  => CacheGetPPP(cache, code, now)
                         = CacheGetPPP(file.source, code, file.at)
        /\ CacheGetExchangeRate(file.source, USD, TRY, file.at).found
              => CacheGetExchangeRate(cache, USD, TRY, now)
                     = CacheGetExchangeRate(file.source, USD, TRY, file.at)
        /\ CacheGetCountries(file.source, file.at).found
              => CacheGetCountries(cache, now)
                     = CacheGetCountries(file.source, file.at)
        /\ \A search \in Searches :
              CacheGetIndicators(file.source, search, file.at).found
                  => CacheGetIndicators(cache, search, now)
                         = CacheGetIndicators(file.source, search, file.at)

\* the key begins with the prefix
HasPrefix(key, prefix) ==
    Len(key) >= Len(prefix) /\ SubSeq(key, 1, Len(prefix)) = prefix

\* the namespace of a key: the type of the payload under it, or "none" for
\* a key of no known prefix
Namespace(key) ==
    IF HasPrefix(key, <<"p", "p", "p", ":">>) THEN "*PPPData"
    ELSE IF HasPrefix(key, <<"r", "a", "t", "e", ":">>) THEN "*ExchangeRate"
    ELSE IF key = CacheKeyCountries THEN "[]Country"
    ELSE IF HasPrefix(key, IndicatorsPrefix \o <<":">>) THEN "[]Indicator"
    ELSE "none"

\* the payload decoded into the shape of its namespace
Decoded(type, rawData) ==
    CASE type = "*PPPData" -> UnmarshalPPPData(rawData)
      [] type = "*ExchangeRate" -> UnmarshalExchangeRate(rawData)
      [] type = "none" -> Fail(UnmarshalError)
      [] OTHER -> UnmarshalSlice(rawData)

\* C17: importing a readable snapshot file returns no error whatever its
\* entries are; an entry under a key of no known prefix and an entry whose
\* payload does not decode leave the cache as it was under that key, and
\* every other entry of the file is found in the cache with its decoded
\* value.
C17_ImportIsLenientPerEntry ==
    (/\ last.op = "ImportCache"
     /\ file.exists
     /\ file.body.j = "object"
     /\ now = last.at)
        => /\ last.res.ok
           /\ \A key \in DOMAIN file.body.f :
                 LET d == Decoded(Namespace(key), file.body.f[key])
                 IN  IF d.ok
                     THEN MemoryGet(cache, key, now)
                              = [found |-> TRUE,
                                 obj |-> [type |-> Namespace(key), v |-> d.val]]
                     ELSE MemoryGet(cache, key, now)
                              = MemoryGet(last.before, key, now)

----------------------------------------------------------------------------
(* FormatPrice: C21 *)

\* the currencies whose symbol follows the amount
SymbolAfter ==
    {<<"E", "U", "R">>, <<"R", "U", "B">>, <<"P", "L", "N">>, <<"C", "Z", "K">>,
     <<"H", "U", "F">>}

\* the symbol of a currency: the one of the table, or the code and a space
SymbolOf(currency) ==
    IF currency \in DOMAIN currencySymbols THEN currencySymbols[currency]
    ELSE currency \o <<" ">>

IsDigit(ch) == \E k \in DOMAIN DecimalDigits : DecimalDigits[k] = ch

\* the text is a number, with a sign or without, written with so many
\* decimals
HasDecimals(text, decimals) ==
    LET t == IF text # <<>> /\ text[1] = "-" THEN Tail(text) ELSE text
        w == Len(t) - (IF decimals > 0 THEN decimals + 1 ELSE 0)
    IN  /\ w >= 1
        /\ \A i \in 1..w : IsDigit(t[i])
        /\ decimals > 0 => t[w + 1] = "."
        /\ \A i \in (w + 2)..Len(t) : IsDigit(t[i])

\* the text is the symbol and then a number of so many decimals
SymbolThenAmount(text, symbol, decimals) ==
    /\ Len(text) > Len(symbol)
    /\ SubSeq(text, 1, Len(symbol)) = symbol
    /\ HasDecimals(SubSeq(text, Len(symbol) + 1, Len(text)), decimals)

\* the text is a number of so many decimals, a space, and the symbol
AmountThenSymbol(text, symbol, decimals) ==
    LET k == Len(text) - Len(symbol)
    IN  /\ k > 1
        /\ SubSeq(text, k + 1, Len(text)) = symbol
        /\ text[k] = " "
        /\ HasDecimals(SubSeq(text, 1, k - 1), decimals)

\* C21: FormatPrice renders EUR, RUB, PLN, CZK and HUF as the amount with 2
\* decimals followed by the symbol, every currency of the set RoundPrice
\* rounds to integers as the symbol followed by the amount with 0 decimals,
\* and every other currency as the symbol followed by the amount with 2
\* decimals, the symbol of a code without one being the code and a space.
C21_OneConventionPerCurrencyClass ==
    last.op = "FormatPrice" =>
        IF last.currency \in SymbolAfter
        THEN AmountThenSymbol(last.res, SymbolOf(last.currency), 2)
        ELSE IF last.currency \in noDecimalCurrencies
        THEN SymbolThenAmount(last.res, SymbolOf(last.currency), 0)
        ELSE SymbolThenAmount(last.res, SymbolOf(last.currency), 2)

----------------------------------------------------------------------------
(* Store, lookup and clear of the cache: C22 *)

\* an entry stored at time at with the expiration has not expired at time t
\* in a cache with the default expiration: DefaultExpiration stands for
\* the default, and a duration that is not positive never ends
LivesUntil(at, expiration, default, t) ==
    LET d == IF expiration = DefaultExpiration THEN default ELSE expiration
    IN  d > 0 => t <= at + d

\* every Get, in the four namespaces, of the cache at time t
AllGets(c, t) ==
    <<CacheGetPPP(c, TR, t), CacheGetExchangeRate(c, USD, TRY, t),
      CacheGetCountries(c, t), CacheGetIndicators(c, <<>>, t)>>

\* what a Get of the cache at time t finds under a key
Entry(c, key, t) == MemoryGet(c, key, t)

\* whether the entry under the key has expired at time t
Expired(c, key, t) ==
    key \in DOMAIN c.items /\ c.items[key].exp > 0 /\ t > c.items[key].exp

\* the key the step writes to, if it is a Set
Overwrites(key) ==
    \/ last'.op = "SetPPP" /\ key = CacheKeyPPP(last'.country)
    \/ last'.op = "SetExchangeRate" /\ key = CacheKeyExchangeRate(last'.from, last'.to)
    \/ last'.op = "SetCountries" /\ key = CacheKeyCountries
    \/ last'.op = "SetIndicators" /\ key = CacheKeyIndicators(<<>>)

\* a value once found stays found, with that value, by every step that is
\* no Clear and no Set of its key, unless it expires
FoundStaysFound ==
    \A key \in DOMAIN cache.items :
        (/\ Entry(cache, key, now).found
         /\ last'.op # "ClearCache"
         /\ ~Overwrites(key)
         /\ ~Expired(cache, key, now'))
            => Entry(cache', key, now') = Entry(cache, key, now)

\* the stored value is found at once and while the entry is the last thing
\* written and has not expired
SetIsFound ==
    /\ (last.op = "SetPPP"
            /\ LivesUntil(last.at, last.expiration, cache.defaultExpiration, now))
          => CacheGetPPP(cache, last.country, now)
                 = [found |-> TRUE, val |-> last.data]
    /\ (last.op = "SetExchangeRate"
            /\ LivesUntil(last.at, last.expiration, cache.defaultExpiration, now))
          => CacheGetExchangeRate(cache, last.from, last.to, now)
                 = [found |-> TRUE, val |-> last.rate]

\* after Clear no Get finds anything
ClearedIsEmpty ==
    last.op = "ClearCache" => \A i \in 1..4 : ~AllGets(cache, now)[i].found

\* C22: after SetPPP or SetExchangeRate the matching Get reports found with
\* the stored value until the entry expires, is overwritten or the cache is
\* cleared, and after Clear every Get in every namespace reports not found.
C22_StoredIsFoundUntilExpiredOverwrittenOrCleared ==
    /\ [](SetIsFound /\ ClearedIsEmpty)
    /\ [][FoundStaysFound]_vars

\* an hour after a SetPPP with the short expiration the entry is still
\* found, beside an exchange rate stored before it
C22_Witness ==
    /\ last.op = "SetPPP"
    /\ last.expiration = ShortDuration * Hour
    /\ now > last.at
    /\ CacheGetPPP(cache, TR, now) = [found |-> TRUE, val |-> last.data]
    /\ CacheGetExchangeRate(cache, USD, TRY, now).found

----------------------------------------------------------------------------
(* Construction of the client: C23 *)

\* the places of the options that set the cache
CacheOptions(opts) ==
    {i \in 1..Len(opts) : opts[i].name \in {"WithCache", "WithoutCache"}}

\* the last option that sets the cache
Deciding(opts) ==
    opts[CHOOSE i \in CacheOptions(opts) : \A j \in CacheOptions(opts) : j <= i]

\* C23: NewClient enables caching by default and WithoutCache disables it;
\* the last of the WithCache and WithoutCache options given decides; and in
\* every client NewClient builds the cache-enabled flag is true exactly
\* when the client has a cache instance.
C23_LastCacheOptionDecides ==
    (last.op = "NewClient" /\ "opts" \in DOMAIN last) =>
        /\ cacheEnabled <=> ~cache.nil
        /\ CacheOptions(last.opts) = {}
              => cacheEnabled /\ cacheDuration = DefaultCacheHours
        /\ CacheOptions(last.opts) # {}
              => IF Deciding(last.opts).name = "WithoutCache"
                 THEN ~cacheEnabled
                 ELSE /\ cacheEnabled
                      /\ cacheDuration = Deciding(last.opts).duration
                      /\ cache = NewCache(Deciding(last.opts).duration)

\* a client built with WithoutCache after WithCache, and an option between
C23_Witness ==
    /\ last.op = "NewClient"
    /\ "opts" \in DOMAIN last
    /\ Len(last.opts) = 3
    /\ last.opts[1].name = "WithCache"
    /\ last.opts[2].name = "WithTimeout"
    /\ last.opts[3].name = "WithoutCache"
    /\ ~cacheEnabled

----------------------------------------------------------------------------
(* The reads of the client and the cache: C24 *)

\* the step is a read whose provider call failed
FailedFetch ==
    /\ last'.op \in {"GetPPP", "GetExchangeRate"}
    /\ last'.fetches = 1
    /\ ~last'.res.ok

\* C24: when the provider call that Client.GetPPP or Client.GetExchangeRate
\* makes on a cache miss fails (an error of the provider, or the caller's
\* context cancelled or past its deadline), the call returns the error and
\* the cache holds exactly the entries it held before the call.
C24_FailedFetchCommitsNothing ==
    [][FailedFetch => cache' = cache]_vars

\* a read of the PPP failed at the provider while the cache held a rate
C24_Witness ==
    /\ last.op = "GetPPP"
    /\ last.fetches = 1
    /\ ~last.res.ok
    /\ CacheGetExchangeRate(cache, USD, TRY, now).found

----------------------------------------------------------------------------
(* The time-to-live of the exchange rates: C25 *)

\* the keys of the exchange-rate entries of a cache
RateKeys(c) ==
    {key \in DOMAIN c.items : HasPrefix(key, <<"r", "a", "t", "e", ":">>)}

\* the entry under the key was put into the cache by the step
Entered(key) ==
    key \notin DOMAIN cache.items \/ cache'.items[key] # cache.items[key]

\* C25: every exchange-rate entry that enters the cache, by a fetch on a
\* cache miss or by the import of a snapshot, expires exactly 1 hour after
\* it entered, whatever cache duration the client was built with.
C25_RateEntriesLiveOneHour ==
    [][\A key \in RateKeys(cache') :
          Entered(key) => cache'.items[key].exp = now' + Hour]_vars

----------------------------------------------------------------------------
(* Concurrent reads of one key: C26 *)

\* the callers whose call has returned after a miss
ReturnedAfterMiss == {p \in Callers : inflight[p].pc = "done" /\ inflight[p].missed}

\* C26: when callers call Client.GetPPP for the same key at the same time
\* and all miss, each makes a provider fetch of its own, each call whose
\* fetch succeeded returns the value it fetched, and once the calls have
\* returned the cache holds the value of the write that came last.
C26_NoSingleFlightLastWriteWins ==
    /\ \A p \in ReturnedAfterMiss :
          /\ inflight[p].fetches = 1
          /\ inflight[p].res = inflight[p].got
    /\ (last.op = "StorePPP" /\ cacheEnabled)
          => CacheGetPPP(cache, TR, now) = [found |-> TRUE, val |-> last.val]

\* two callers missed, fetched different values and returned them, and the
\* cache holds the value of the second write
C26_Witness ==
    /\ ReturnedAfterMiss = Callers
    /\ \A p \in Callers : inflight[p].res.ok
    /\ \E p, q \in Callers : inflight[p].res.val # inflight[q].res.val
    /\ last.op = "StorePPP"
    /\ CacheGetPPP(cache, TR, now) = [found |-> TRUE, val |-> last.val]

----------------------------------------------------------------------------
(* The order of equal factors in Client.ComparePPP: C27 *)

\* the country and factor of the reads that succeeded, in the order of the
\* input, from position i on
RECURSIVE Fetched(_, _)
Fetched(call, i) ==
    IF i > Len(call.countryCodes) THEN <<>>
    ELSE (IF call.got[i].ok
          THEN <<[Country |-> call.countryCodes[i], Factor |-> call.got[i].val.Factor]>>
          ELSE <<>>) \o Fetched(call, i + 1)

\* the entries in ascending order of factor, those of one factor in the
\* order they have in s
RECURSIVE StableByFactor(_, _)
StableByFactor(s, factors) ==
    IF factors = {} THEN <<>>
    ELSE LET least == CHOOSE f \in factors : \A g \in factors : RLe(f, g)
         IN  SelectSeq(s, LAMBDA x : x.Factor = least)
                 \o StableByFactor(s, factors \ {least})

\* C27: the order Client.ComparePPP returns is that of a stable sort by
\* factor: two successfully fetched countries with equal factors are in the
\* result in the order they have in the input list.
C27_EqualFactorsKeepInputOrder ==
    last.op = "ComparePPP" =>
        LET in == Fetched(last, 1)
            out == last.res.val
        IN  [k \in 1..Len(out) |-> [Country |-> out[k].Country, Factor |-> out[k].Factor]]
                = StableByFactor(in, {in[k].Factor : k \in 1..Len(in)})

----------------------------------------------------------------------------
(* The keys of the cache: C28 *)

\* C28: two distinct datasets (of different namespaces, or of one namespace
\* with different identifying fields) are never cached under the same key,
\* so the Set of one never changes what the Get of the other returns.
C28_DistinctDatasetsDistinctKeys ==
    (last.op = "SetOther" /\ last.a # last.b) =>
        /\ last.keyA # last.keyB
        /\ last.after = last.before

----------------------------------------------------------------------------
(* The last tier: C29 *)

\* C29: the last tier of the list has no upper bound: a factor at or above
\* its lower bound that no earlier tier holds gets the last tier, so under
\* the standard tiers every factor from 0 up gets a tier, and only one tier
\* holds it.
C29_LastTierIsOpenEnded ==
    (last.op = "getTierForPPP") =>
        LET n == Len(pricingTiers)
            f == last.pppFactor
        IN  /\ (/\ RGe(f, pricingTiers[n].MinPPPFactor)
                /\ \A i \in 1..(n - 1) : ~TierContains(pricingTiers[i], f))
                  => (~last.res.nil /\ last.res.tier = pricingTiers[n])
            /\ (pricingTiers = StandardPricingTiers /\ RGe(f, RInt(0)))
                  => /\ ~last.res.nil
                     /\ Cardinality({i \in 1..n : TierContains(pricingTiers[i], f)}) = 1

----------------------------------------------------------------------------
(* The fields the tier override leaves alone: C30 *)

\* the fields of a PriceRecommendation other than the recommended price and
\* the discount
FrameFields ==
    {"OriginalPrice", "OriginalCurrency", "TargetCurrency", "PPPFactor", "ExchangeRate"}

\* Client.Recommend, called with the arguments of the call on the state the
\* call found and given the provider answers ppp and rate, makes the reads
\* the call made and returns the call's values in the frame fields
SameFrameAsRecommend(call, ppp, rate) ==
    LET b == ClientRecommend(cache, cacheEnabled, cacheDuration, call.args.price,
                             call.args.fromCurrency, call.args.toCountry,
                             ppp, rate, now)
    IN  /\ b.res.ok
        /\ b.ppp = call.ppp
        /\ b.rate = call.rate
        /\ \A f \in FrameFields : call.res.val[f] = b.res.val[f]

\* C30: the result of a successful RecommendWithStrategy call has the
\* OriginalPrice, OriginalCurrency, TargetCurrency, PPPFactor and
\* ExchangeRate that Client.Recommend returns for the same arguments on the
\* same state, whether a tier held the factor or not.
C30_OverrideKeepsOtherFields ==
    [][(last'.op = "RecommendWithStrategy" /\ last'.res.ok) =>
          \E ppp \in PPPFetch(cache, cacheEnabled, last'.args.toCountry, now) :
          \E rate \in RateFetch(cache, cacheEnabled, last'.args.fromCurrency,
                                getCurrencyForCountry(last'.args.toCountry), now) :
              SameFrameAsRecommend(last', ppp, rate)]_vars

\* a call whose tier replaced the recommended price and the discount of the
\* base recommendation, the other fields being those of the base
C30_Witness ==
    /\ last.op = "RecommendWithStrategy"
    /\ last.res.ok
    /\ ~getTierForPPP(pricingTiers, last.res.val.PPPFactor).nil
    /\ last.res.val.RecommendedPrice # BaseRecommendation(last).RecommendedPrice
    /\ last.res.val.DiscountPercentage # BaseRecommendation(last).DiscountPercentage
    /\ \A f \in FrameFields : last.res.val[f] = BaseRecommendation(last)[f]

====
